---- MODULE Spec2Model ----
(***************************************************************************)
(* Model of the H&G Abogados IA connectors:                                *)
(*   providers/judicial_connectors.py  (SATJE, Corte Constitucional,       *)
(*                                      Corte Nacional de Justicia)        *)
(*   providers/fielweb_connector.py    (login + search on FielWeb)         *)
(*   main.py                           (the three POST endpoints)          *)
(* One behaviour of Spec is one HTTP request.  Every await of the source   *)
(* is one step; a step that drives the browser either succeeds or raises.  *)
(* One behaviour of HelperSpec is one call of _first_selector,             *)
(* _classify_link or _dedup on arguments drawn from bounded sets.          *)
(* One behaviour of SessionSpec is a series of calls of                    *)
(* cargar_o_iniciar_sesion and probar_sesion of                            *)
(*   providers/fielweb_session_manager.py                                  *)
(* on one session file.                                                    *)
(***************************************************************************)
EXTENDS Integers, Sequences, FiniteSets, TLC

VARIABLES
    endpoint,      \* which endpoint of main.py serves the request
    payload,       \* the request body (dict: key -> text)
    config,        \* FIELWEB_URL / USERNAME / PASSWORD are set (module globals)
    connectors,    \* main.py imported the two connectors
    pc,            \* position of the request in the code
    texto,         \* local `texto` of the running connector
    exc,           \* exception in flight out of the async function
    ret,           \* value the async function is returning (try ... return)
    chromium,      \* per connector: state of browser and context
    touched,       \* per connector: kinds of browser calls made
    sel,           \* resolved selectors (locals user_sel, pass_sel, subm_sel, q_sel, b_sel)
    idx,           \* position of the adapter loop in _buscar_juris_async
    nodes,         \* result containers returned by query_selector_all
    resultados,    \* local `resultados` of _buscar_juris_async
    srcResult,     \* per source: what funcion(page, texto) did (res or exception)
    resultado_fielweb,  \* dict returned by consultar_fielweb
    resultado_juris,    \* dict returned by consultar_jurisprudencia
    settle,        \* how the page was judged loaded after the login / the search submit
    response,      \* what the endpoint answers
    call,          \* a helper function called on its own: arguments and result
    session        \* fielweb_session_manager.py: the session file and the running call

vars == <<endpoint, payload, config, connectors, pc, texto, exc, ret, chromium,
          touched, sel, idx, nodes, resultados, srcResult, resultado_fielweb,
          resultado_juris, settle, response, call, session>>

----------------------------------------------------------------------------
(* Program constants *)

MAX_ITEMS == 10

(* Bounds of the model *)

\* most result containers a portal page holds (above MAX_ITEMS)
MaxNodes == 11

\* a few result containers, below MAX_ITEMS
FewNodes == 3

----------------------------------------------------------------------------
(* Values *)

None == "None"

NoDict == [unset |-> TRUE]

\* Python's None where a dict is expected
PyNone == [none |-> TRUE]

\* bool(d) of a dict or None
PyBool(d) == d # PyNone /\ DOMAIN d # {}

\* d.get("resultado"): <<value>>, or <<>> for None
GetResultado(d) == IF "resultado" \in DOMAIN d THEN <<d.resultado>> ELSE <<>>

Range(s) == {s[i] : i \in 1..Len(s)}

Min(a, b) == IF a < b THEN a ELSE b

\* a slice that does not cut
TakeAll(s, n) == s

\* s[:n]
Take(s, n) == SubSeq(s, 1, Min(n, Len(s)))

\* texts are sequences of characters; " " is whitespace
IsSpace(c) == c = " "

RECURSIVE lstrip(_)
lstrip(s) == IF s # <<>> /\ IsSpace(Head(s)) THEN lstrip(Tail(s)) ELSE s

RECURSIVE rstrip(_)
rstrip(s) ==
    IF s # <<>> /\ IsSpace(s[Len(s)]) THEN rstrip(SubSeq(s, 1, Len(s) - 1)) ELSE s

\* a strip that leaves the text as it is
strip_nothing(s) == s

\* str.strip()
strip(s) == rstrip(lstrip(s))

\* a JSON value that is not a string (a number): it has no .strip()
NotText == <<"#number">>

\* payload.get(k) or default     (an absent key and "" are both falsy)
GetOr(p, k, default) ==
    IF k \in DOMAIN p /\ p[k] # <<>> THEN p[k] ELSE default

\* request bodies: texto / consulta / palabras_clave absent, empty, blank or set
Payloads ==
    { [tipo_usuario |-> <<"x">>],
      [texto |-> <<>>],
      [texto |-> <<" ">>],
      [texto |-> <<" ", "a", " ">>],
      [consulta |-> <<"b">>],
      [consulta |-> <<" ", " ">>],
      [palabras_clave |-> <<"c">>],
      [palabras_clave |-> <<" ">>],
      [texto |-> <<" ">>, consulta |-> <<"b">>, palabras_clave |-> <<"c">>],
      [texto |-> NotText] }

\* which of the three module globals are non-empty: all, or all but one
Configs ==
    { [v \in {"FIELWEB_URL", "USERNAME", "PASSWORD"} |-> v # missing] :
        missing \in {"none", "FIELWEB_URL", "USERNAME", "PASSWORD"} }

Endpoints == {"consult_real_fielweb", "consult_real_jurisprudencia", "consult_hybrid"}

Connectors == {"FielWeb", "Jurisprudencia"}

\* exceptions a browser call raises: playwright TimeoutError or any other Exception
Raised == {"PWTimeout", "Error"}

----------------------------------------------------------------------------
(* judicial_connectors.py: helpers *)

\* a probe without its except clause: the exception of a throwing probe
\* leaves the loop
ProbeStepUncaught(outcome) ==
    IF outcome = "match" THEN "return"
    ELSE IF outcome = "throw" THEN "raise"
    ELSE "continue"

\* one turn of the loop of _first_selector (lines 52-56):
\* try: if await page.query_selector(sel): return sel / except Exception: continue
ProbeStep(outcome) ==
    IF outcome = "match" THEN "return" ELSE "continue"

\* what leaves _first_selector instead of a value when a probe's exception
\* is not caught
ProbeRaised == "raised"

\* a resolver that keeps probing and returns the last candidate that matches
RECURSIVE _last_selector(_, _)
_last_selector(probe, selectors) ==
    IF selectors = <<>> THEN None
    ELSE IF probe[selectors[Len(selectors)]] = "match" THEN selectors[Len(selectors)]
    ELSE _last_selector(probe, SubSeq(selectors, 1, Len(selectors) - 1))

\* _first_selector: probe[s] says what page.query_selector(s) does
RECURSIVE _first_selector(_, _)
_first_selector(probe, selectors) ==
    IF selectors = <<>> THEN None
    ELSE LET step == ProbeStep(probe[Head(selectors)]) IN
         IF step = "return" THEN Head(selectors)
         ELSE IF step = "continue" THEN _first_selector(probe, Tail(selectors))
         ELSE ProbeRaised

Probes(selectors) == [Range(selectors) -> {"match", "none", "throw"}]

\* URLs: <<site, document>>
\* _abs_url(base, href): urljoin keeps an absolute href, resolves a relative one
_abs_url(base, href) ==
    IF href.kind = "abs" THEN <<href.site, href.doc>> ELSE <<base, href.doc>>

\* the empty URL (falsy); urljoin never yields it
NoUrl == <<"", 0>>

\* a loop that forgets to look into `seen`
RECURSIVE dedup_loop_unseen(_, _, _)
dedup_loop_unseen(items, seen, out) ==
    IF items = <<>> THEN out
    ELSE LET i == Head(items)
             keep == "url" \in DOMAIN i /\ i.url # NoUrl
         IN  dedup_loop_unseen(Tail(items), seen,
                               IF keep THEN Append(out, i) ELSE out)

\* the loop of _dedup, seen = URLs seen so far
RECURSIVE dedup_loop(_, _, _)
dedup_loop(items, seen, out) ==
    IF items = <<>> THEN out
    ELSE LET i == Head(items)
             \* val = i.get(key); val and val not in seen
             keep == "url" \in DOMAIN i /\ i.url # NoUrl /\ i.url \notin seen
         IN  dedup_loop(Tail(items),
                        IF keep THEN seen \cup {i.url} ELSE seen,
                        IF keep THEN Append(out, i) ELSE out)

Reverse(s) == [i \in 1..Len(s) |-> s[Len(s) + 1 - i]]

\* a deduplication that keeps the last record of each URL
_dedup_keep_last(items) == Reverse(dedup_loop(Reverse(items), {}, <<>>))

\* a loop that takes a missing or empty url for a key like any other
RECURSIVE dedup_loop_any_key(_, _, _)
dedup_loop_any_key(items, seen, out) ==
    IF items = <<>> THEN out
    ELSE LET i == Head(items)
             val == IF "url" \in DOMAIN i THEN i.url ELSE NoUrl
             keep == val \notin seen
         IN  dedup_loop_any_key(Tail(items),
                                IF keep THEN seen \cup {val} ELSE seen,
                                IF keep THEN Append(out, i) ELSE out)

\* a deduplication that keeps the first record without URL
_dedup_any_key(items) == dedup_loop_any_key(items, {}, <<>>)

_dedup(items) == dedup_loop(items, {}, <<>>)

----------------------------------------------------------------------------
(* The portals *)

SOURCES == <<"SATJE", "Corte Constitucional", "Corte Nacional de Justicia">>

DESCRIPCION == <<"Sentencia registrada en SATJE", "Relatoria Constitucional",
                 "Precedente o Relatoria CNJ">>

QUERY_SELECTORS == << <<"#txtBuscar", "input[id*=Buscar]">>,
                      <<"#txtPalabraClave", "input[id*=Palabra]">>,
                      <<"#txtPalabraClave", "input[id*=Palabra]">> >>

BUTTON_SELECTORS == <<"#btnBuscar", "button[id*=btnBuscar]">>

\* the selector lists given to page.query_selector_all in one string
\* (lines 102, 134, 166): the nodes any of them matches, in document order
CONTAINER_SELECTORS ==
    << <<".DataGridItemStyle", ".card", "tr", ".resultado">>,
       <<".list-group-item", ".panel-body", "tr", ".resultado">>,
       <<".panel-body", ".list-group-item", ".card", "tr">> >>

Abs(d) == [kind |-> "abs", site |-> "docs", doc |-> d]
Rel(d) == [kind |-> "rel", site |-> "", doc |-> d]
NoHref == [kind |-> "none", site |-> "", doc |-> 0]

\* Result container i of the page portal s serves.  The portals list
\* overlapping windows of the same documents; some containers have no
\* anchor, an anchor without href, a repeated link or a relative link.
JurisNode(s, i) ==
    LET d == s + i - 1 IN
    [ text    |-> <<d, 0>>,
      by      |-> CONTAINER_SELECTORS[s][((i - 1) % 4) + 1],
      anchors |-> IF i % 5 = 0 THEN <<>>
                  ELSE IF i % 4 = 0 THEN <<NoHref, Abs(d - 1), Abs(d)>>
                  ELSE IF i % 7 = 0 THEN <<Rel(d), Abs(d)>>
                  ELSE <<Abs(d)>> ]

\* how many result containers a page may hold: none, few, exactly
\* MAX_ITEMS, and more than MAX_ITEMS
PageSizes == (0..FewNodes) \cup (MAX_ITEMS..MaxNodes)

JurisPage(s, n) == [i \in 1..n |-> JurisNode(s, i)]

\* the records one container contributes (inner loop of _buscar_satje etc.)
RECURSIVE AnchorRecords(_, _, _)
AnchorRecords(s, node, anchors) ==
    IF anchors = <<>> THEN <<>>
    ELSE LET a == Head(anchors)
             rest == AnchorRecords(s, node, Tail(anchors))
         IN  IF a.kind # "none"
             THEN <<[fuente |-> SOURCES[s],
                     titulo |-> Head(node.text),
                     descripcion |-> DESCRIPCION[s],
                     url |-> _abs_url(SOURCES[s], a)]>> \o rest
             ELSE rest

\* the outer loop over nodes[:MAX_ITEMS]
RECURSIVE NodeRecords(_, _)
NodeRecords(s, ns) ==
    IF ns = <<>> THEN <<>>
    ELSE AnchorRecords(s, Head(ns), Head(ns).anchors) \o NodeRecords(s, Tail(ns))

Extract(s, ns) == NodeRecords(s, Take(ns, MAX_ITEMS))

ErrorRecord(s, e) == [fuente |-> SOURCES[s], error |-> <<"No disponible", e>>]

----------------------------------------------------------------------------
(* Initial state: a request arrives *)

NoSel == [user |-> None, pass |-> None, subm |-> None, q |-> None, b |-> None]

\* no settle wait has run (lines 102-106, 120-123 and 97-100)
NotSettled == [login |-> "no", search |-> "no"]

\* the marker words of the login form (fielweb_session_manager.py line 70)
Markers == {"Usuario", "Clave"}

\* fielweb_session_manager.py is not called while a request is served
NoSession == [file |-> "absent", fn |-> "none", context |-> "none",
              page |-> Markers, settle |-> "no", runs |-> 0]

\* no helper is called on its own while a request is served
NoCall == [fn |-> "none"]

Pending == [status |-> "pending", entries |-> <<>>, collected |-> FALSE]

Init ==
    /\ endpoint \in Endpoints
    /\ payload \in Payloads
    /\ config \in Configs
    /\ connectors \in BOOLEAN
    /\ pc = "request"
    /\ texto = <<>>
    /\ exc = None
    /\ ret = NoDict
    /\ chromium = [c \in Connectors |-> [browser |-> "none", context |-> "none"]]
    /\ touched = [c \in Connectors |-> {}]
    /\ sel = NoSel
    /\ idx = 0
    /\ nodes = <<>>
    /\ resultados = <<>>
    /\ srcResult = [s \in 1..3 |-> Pending]
    /\ resultado_fielweb = NoDict
    /\ resultado_juris = NoDict
    /\ settle = NotSettled
    /\ response = NoDict
    /\ call = NoCall
    /\ session = NoSession

request == <<endpoint, payload, config, connectors>>

\* where the request goes once consultar_jurisprudencia has returned
AfterJuris == IF endpoint = "consult_hybrid" THEN "hy_respond" ELSE "ep_return"

\* where the request goes once consultar_fielweb has returned
\* (in consult_hybrid line 103 calls consultar_jurisprudencia next)
AfterFielweb == IF endpoint = "consult_hybrid" THEN "cj_entry" ELSE "ep_return"

Touch(c, what) == [touched EXCEPT ![c] = @ \cup {what}]

----------------------------------------------------------------------------
(* judicial_connectors.py: consultar_jurisprudencia and _buscar_juris_async *)

\* consultar_jurisprudencia, lines 235-237
CJ_Entry ==
    /\ pc = "cj_entry"
    /\ LET t == strip(GetOr(payload, "texto", GetOr(payload, "palabras_clave", <<>>)))
           v == GetOr(payload, "texto", GetOr(payload, "palabras_clave", <<>>))
       IN  IF v = NotText
           THEN /\ exc' = "AttributeError"
                /\ pc' = "ep_except"
                /\ UNCHANGED <<texto, resultado_juris>>
           ELSE IF t = <<>>
           THEN /\ resultado_juris' =
                       [error |-> <<"Debe proporcionar un texto valido para busqueda.">>]
                /\ pc' = AfterJuris
                /\ UNCHANGED <<texto, exc>>
           ELSE /\ texto' = t
                /\ pc' = "j_start"
                /\ UNCHANGED <<resultado_juris, exc>>
    /\ UNCHANGED <<request, call, session, settle, ret, chromium, touched, sel, idx, nodes,
                   resultados, srcResult, resultado_fielweb, response>>

\* asyncio.run(_buscar_juris_async(texto)): lines 184-196
J_Start ==
    /\ pc = "j_start"
    /\ IF texto = <<>>
       THEN /\ ret' = [error |-> <<"Debe ingresar un texto de busqueda.">>]
            /\ pc' = "cj_result"
            /\ exc' = exc
       ELSE \/ /\ pc' = "j_launch"
               /\ UNCHANGED <<exc, ret>>
            \/ \E e \in Raised :
                  /\ exc' = e
                  /\ pc' = "cj_result"
                  /\ ret' = ret
    /\ UNCHANGED <<request, call, session, settle, texto, chromium, touched, sel, idx, nodes,
                   resultados, srcResult, resultado_fielweb, resultado_juris,
                   response>>

\* browser = await p.chromium.launch(...), line 197
J_Launch ==
    /\ pc = "j_launch"
    /\ \/ /\ chromium' = [chromium EXCEPT !["Jurisprudencia"].browser = "open"]
          /\ touched' = Touch("Jurisprudencia", "launch")
          /\ pc' = "j_new_context"
          /\ exc' = exc
       \/ \E e \in Raised :
             /\ exc' = e
             /\ pc' = "j_pw_exit"
             /\ UNCHANGED <<chromium, touched>>
    /\ UNCHANGED <<request, call, session, settle, texto, ret, sel, idx, nodes, resultados, srcResult,
                   resultado_fielweb, resultado_juris, response>>

\* context = await browser.new_context(), line 198
J_NewContext ==
    /\ pc = "j_new_context"
    /\ \/ /\ chromium' = [chromium EXCEPT !["Jurisprudencia"].context = "open"]
          /\ pc' = "j_new_page"
          /\ exc' = exc
       \/ \E e \in Raised :
             /\ exc' = e
             /\ pc' = "j_pw_exit"
             /\ chromium' = chromium
    /\ UNCHANGED <<request, call, session, settle, texto, ret, touched, sel, idx, nodes, resultados,
                   srcResult, resultado_fielweb, resultado_juris, response>>

\* page = await context.new_page(); resultados = []; enter the loop: lines 199-205
J_NewPage ==
    /\ pc = "j_new_page"
    /\ \/ /\ pc' = "j_goto"
          /\ idx' = 1
          /\ resultados' = <<>>
          /\ exc' = exc
       \/ \E e \in Raised :
             /\ exc' = e
             /\ pc' = "j_pw_exit"
             /\ UNCHANGED <<idx, resultados>>
    /\ UNCHANGED <<request, call, session, settle, texto, ret, chromium, touched, sel, nodes, srcResult,
                   resultado_fielweb, resultado_juris, response>>

----------------------------------------------------------------------------
(* The adapter loop of _buscar_juris_async (lines 205-217) around the three *)
(* adapters _buscar_satje, _buscar_corte_constitucional and                *)
(* _buscar_corte_nacional (lines 84-178); idx is the adapter running.       *)

NextAdapterPc == IF idx = 3 THEN "j_dedup" ELSE "j_goto"

\* a loop that puts what the adapter returned in front of resultados
AdapterReturnsInFront(res, how) ==
    /\ resultados' = res \o resultados
    /\ srcResult' = [srcResult EXCEPT ![idx] =
                        [status |-> how, entries |-> res, collected |-> FALSE]]
    /\ idx' = idx + 1
    /\ pc' = NextAdapterPc
    /\ sel' = NoSel
    /\ nodes' = <<>>
    /\ settle' = NotSettled

\* res = await funcion(page, texto); resultados.extend(res): lines 211-212
\* (how: "returned", or "no_form" for the return [] of lines 93, 125, 157)
AdapterReturns(res, how) ==
    /\ resultados' = resultados \o res
    /\ srcResult' = [srcResult EXCEPT ![idx] =
                        [status |-> how, entries |-> res, collected |-> FALSE]]
    /\ idx' = idx + 1
    /\ pc' = NextAdapterPc
    /\ sel' = NoSel
    /\ nodes' = <<>>
    /\ settle' = NotSettled

\* an adapter loop without its except clause: the exception leaves the loop
AdapterRaisesMissingHandler(e, collected) ==
    /\ exc' = e
    /\ srcResult' = [srcResult EXCEPT ![idx] =
                        [status |-> "raised", entries |-> <<>>, collected |-> collected]]
    /\ pc' = "j_context_close"
    /\ sel' = NoSel
    /\ nodes' = <<>>
    /\ settle' = NotSettled
    /\ UNCHANGED <<resultados, idx>>

\* an except clause that keeps the records of the containers read so far
AdapterRaisesKeepsPartial(e, collected) ==
    /\ resultados' = (resultados \o NodeRecords(idx, Take(nodes, 1)))
                         \o <<ErrorRecord(idx, e)>>
    /\ srcResult' = [srcResult EXCEPT ![idx] =
                        [status |-> "raised", entries |-> <<>>, collected |-> collected]]
    /\ idx' = idx + 1
    /\ pc' = NextAdapterPc
    /\ sel' = NoSel
    /\ nodes' = <<>>
    /\ settle' = NotSettled
    /\ exc' = exc

\* except Exception as e: resultados.append({fuente, error}): lines 213-217
AdapterRaises(e, collected) ==
    /\ resultados' = Append(resultados, ErrorRecord(idx, e))
    /\ srcResult' = [srcResult EXCEPT ![idx] =
                        [status |-> "raised", entries |-> <<>>, collected |-> collected]]
    /\ idx' = idx + 1
    /\ pc' = NextAdapterPc
    /\ sel' = NoSel
    /\ nodes' = <<>>
    /\ settle' = NotSettled
    /\ exc' = exc

AdapterGoes(to) ==
    /\ pc' = to
    /\ UNCHANGED <<resultados, srcResult, idx, settle>>

\* the adapter goes on to step `to`, the page judged loaded as `how`
AdapterSettles(to, how) ==
    /\ pc' = to
    /\ settle' = [settle EXCEPT !.search = how]
    /\ UNCHANGED <<resultados, srcResult, idx>>

\* what no adapter step changes
adapterFrame == <<request, call, session, texto, ret, chromium, resultado_fielweb,
                  resultado_juris, response>>

\* await page.goto(URLS[...]): lines 88, 120, 152
J_Goto ==
    /\ pc = "j_goto"
    /\ touched' = Touch("Jurisprudencia", "goto")
    /\ \/ AdapterGoes("j_q_sel") /\ UNCHANGED <<sel, nodes, exc>>
       \/ \E e \in Raised : AdapterRaises(e, FALSE)
    /\ UNCHANGED adapterFrame

\* q_sel = await _first_selector(page, [...]): lines 90, 122, 154
J_QSel ==
    /\ pc = "j_q_sel"
    /\ \E probe \in Probes(QUERY_SELECTORS[idx]) :
          sel' = [sel EXCEPT !.q = _first_selector(probe, QUERY_SELECTORS[idx])]
    /\ AdapterGoes("j_b_sel")
    /\ UNCHANGED <<touched, nodes, exc>>
    /\ UNCHANGED adapterFrame

\* b_sel = await _first_selector(...); if not q_sel or not b_sel: return []
\* lines 91-93, 123-125, 155-157
J_BSel ==
    /\ pc = "j_b_sel"
    /\ \E probe \in Probes(BUTTON_SELECTORS) :
          LET b == _first_selector(probe, BUTTON_SELECTORS) IN
          IF sel.q = None \/ b = None
          THEN AdapterReturns(<<>>, "no_form")
          ELSE /\ sel' = [sel EXCEPT !.b = b]
               /\ AdapterGoes("j_fill")
               /\ nodes' = nodes
    /\ UNCHANGED <<touched, exc>>
    /\ UNCHANGED adapterFrame

\* await page.fill(q_sel, texto): lines 95, 127, 159
J_Fill ==
    /\ pc = "j_fill"
    /\ touched' = Touch("Jurisprudencia", "fill")
    /\ \/ AdapterGoes("j_click") /\ UNCHANGED <<sel, nodes, exc>>
       \/ \E e \in Raised : AdapterRaises(e, FALSE)
    /\ UNCHANGED adapterFrame

\* await page.click(b_sel): lines 96, 128, 160
J_Click ==
    /\ pc = "j_click"
    /\ touched' = Touch("Jurisprudencia", "click")
    /\ \/ AdapterGoes("j_wait") /\ sel' = NoSel /\ UNCHANGED <<nodes, exc>>
       \/ \E e \in Raised : AdapterRaises(e, FALSE)
    /\ UNCHANGED adapterFrame

\* try: await page.wait_for_load_state("networkidle") except PWTimeout:
\* lines 97-99, 129-131, 161-163
J_Wait ==
    /\ pc = "j_wait"
    /\ \/ AdapterSettles("j_query", "idle") /\ UNCHANGED <<sel, nodes, exc>>
       \/ AdapterSettles("j_grace", "timeout") /\ UNCHANGED <<sel, nodes, exc>>
       \/ AdapterRaises("Error", FALSE)
    /\ UNCHANGED touched
    /\ UNCHANGED adapterFrame

\* await page.wait_for_timeout(1500): lines 100, 132, 164
J_Grace ==
    /\ pc = "j_grace"
    /\ \/ AdapterSettles("j_query", "grace") /\ UNCHANGED <<sel, nodes, exc>>
       \/ \E e \in Raised : AdapterRaises(e, FALSE)
    /\ UNCHANGED touched
    /\ UNCHANGED adapterFrame

\* nodes = await page.query_selector_all(...): lines 102, 134, 166
J_Query ==
    /\ pc = "j_query"
    /\ \/ \E n \in PageSizes :
             /\ nodes' = JurisPage(idx, n)
             /\ AdapterGoes("j_extract")
             /\ UNCHANGED <<sel, exc>>
       \/ \E e \in Raised : AdapterRaises(e, FALSE)
    /\ UNCHANGED touched
    /\ UNCHANGED adapterFrame

\* for n in nodes[:MAX_ITEMS]: ...; return _dedup(resultados)
\* lines 103-114, 135-146, 167-178; n.query_selector_all and a.get_attribute
\* may raise at any container k, dropping what the adapter had collected
J_Extract ==
    /\ pc = "j_extract"
    /\ \/ AdapterReturns(_dedup(Extract(idx, nodes)), "returned") /\ exc' = exc
       \/ \E e \in Raised, k \in 1..Min(Len(nodes), MAX_ITEMS) :
             AdapterRaises(e, NodeRecords(idx, SubSeq(nodes, 1, k - 1)) # <<>>)
    /\ UNCHANGED touched
    /\ UNCHANGED adapterFrame

----------------------------------------------------------------------------
(* After the loop: lines 219-229 *)

\* the slice taken before the deduplication
J_DedupAfterSlice ==
    /\ pc = "j_dedup"
    /\ resultados' = _dedup(Take(resultados, MAX_ITEMS))
    /\ ret' = [mensaje |-> <<"Consulta completada para", texto>>,
               nivel_consulta |-> "Jurisprudencia",
               resultado |-> resultados']
    /\ pc' = "j_context_close"
    /\ UNCHANGED <<request, call, session, settle, texto, exc, chromium, touched, sel, idx, nodes,
                   srcResult, resultado_fielweb, resultado_juris, response>>

\* resultados = _dedup(resultados); return {..., "resultado": resultados[:MAX_ITEMS]}
J_Dedup ==
    /\ pc = "j_dedup"
    /\ resultados' = _dedup(resultados)
    /\ ret' = [mensaje |-> <<"Consulta completada para", texto>>,
               nivel_consulta |-> "Jurisprudencia",
               resultado |-> Take(resultados', MAX_ITEMS)]
    /\ pc' = "j_context_close"
    /\ UNCHANGED <<request, call, session, settle, texto, exc, chromium, touched, sel, idx, nodes,
                   srcResult, resultado_fielweb, resultado_juris, response>>

\* the frame of _buscar_juris_async is left: its locals are gone, what
\* each source did stays on record
LeaveJuris ==
    /\ resultados' = <<>>
    /\ idx' = 0
    /\ srcResult' = [s \in 1..3 |-> [srcResult[s] EXCEPT !.entries = <<>>]]

\* finally: await context.close(), line 227
J_ContextClose ==
    /\ pc = "j_context_close"
    /\ \/ /\ chromium' = [chromium EXCEPT !["Jurisprudencia"].context = "closed"]
          /\ pc' = "j_browser_close"
          /\ UNCHANGED <<exc, ret, resultados, idx, srcResult>>
       \/ \E e \in Raised :
             /\ exc' = e
             /\ ret' = NoDict
             /\ pc' = "j_pw_exit"
             /\ chromium' = chromium
             /\ LeaveJuris
    /\ UNCHANGED <<request, call, session, settle, texto, touched, sel, nodes,
                   resultado_fielweb, resultado_juris, response>>

\* await browser.close(), line 228
J_BrowserClose ==
    /\ pc = "j_browser_close"
    /\ \/ /\ chromium' = [chromium EXCEPT !["Jurisprudencia"].browser = "closed"]
          /\ UNCHANGED <<exc, ret>>
       \/ \E e \in Raised :
             /\ exc' = e
             /\ ret' = NoDict
             /\ chromium' = chromium
    /\ LeaveJuris
    /\ pc' = "j_pw_exit"
    /\ UNCHANGED <<request, call, session, settle, texto, touched, sel, nodes,
                   resultado_fielweb, resultado_juris, response>>

\* leaving `async with async_playwright() as p`, line 196
J_PwExit ==
    /\ pc = "j_pw_exit"
    /\ pc' = "cj_result"
    /\ UNCHANGED <<request, call, session, settle, texto, exc, ret, chromium, touched, sel, idx, nodes,
                   resultados, srcResult, resultado_fielweb, resultado_juris,
                   response>>

\* consultar_jurisprudencia, lines 239-244: the value of asyncio.run or the
\* error dict of the except clause that matches
CJ_Result ==
    /\ pc = "cj_result"
    /\ resultado_juris' =
          IF exc = None THEN ret
          ELSE IF exc = "PWTimeout"
          THEN [error |-> <<"Tiempo de espera agotado", exc>>,
                nivel_consulta |-> "Jurisprudencia"]
          ELSE [error |-> <<"Error general al consultar jurisprudencia", exc>>,
                nivel_consulta |-> "Jurisprudencia"]
    /\ exc' = None
    /\ ret' = NoDict
    /\ pc' = AfterJuris
    /\ UNCHANGED <<request, call, session, settle, texto, chromium, touched, sel, idx, nodes,
                   resultados, srcResult, resultado_fielweb, response>>

----------------------------------------------------------------------------
(* fielweb_connector.py: configuration and helpers *)

\* texts, letter by letter
PDFW == <<"p", "d", "f">>

WORDW == <<"w", "o", "r", "d">>

DOCXW == <<"d", "o", "c", "x">>

CONCW == <<"C", "o", "n", "c", "o", "r", "d", "a", "n", "c", "i", "a">>

CONCSW == <<"C", "o", "n", "c", "o", "r", "d", "a", "n", "c", "i", "a", "s">>

JURW == <<"J", "u", "r", "i", "s", "p", "r", "u", "d", "e", "n", "c", "i", "a">>

SENTW == <<"S", "e", "n", "t", "e", "n", "c", "i", "a">>

JURSW == <<"J", "u", "r", "i", "s", "p", "r", "u", "d", "e", "n", "c", "i", "a", "s">>

SENTSW == <<"S", "e", "n", "t", "e", "n", "c", "i", "a", "s">>

ENLACEW == <<"e", "n", "l", "a", "c", "e">>

LBL_PDF == <<"V", "e", "r", " ", "P", "D", "F">>

LBL_CONC == <<"C", "o", "n", "c", "o", "r", "d", "a", "n", "c", "i", "a", "s">>

LBL_SENT == <<"s", "e", "n", "t", "e", "n", "c", "i", "a">>

LBL_VER == <<" ", "V", "e", "r", " ">>

LBL_CONC_PDF == <<"C", "o", "n", "c", "o", "r", "d", "a", "n", "c", "i", "a", " ", "p", "d", "f">>

LBL_EMPTY == <<>>

LOGIN_SELECTORS ==
    [ user     |-> <<"#usuario", "input[name=usuario]", "input[placeholder*=Usuario]",
                     "input[id*=txtUsuario]">>,
      password |-> <<"#clave", "input[name=clave]", "input[placeholder*=Clave]",
                     "input[id*=txtClave]", "input[type=password]">>,
      submit   |-> <<"#btnEntrar", "button:has-text(Entrar)", "input[value=Entrar]",
                     "button[type=submit]", "#ctl00_ContentPlaceHolder1_btnIngresar">> ]

SEARCH_SELECTORS ==
    [ query  |-> <<"input[id*=txtBuscar]", "input[placeholder*=Buscar]",
                   "input[name*=txtBuscar]">>,
      submit |-> <<"button:has-text(Buscar)", "#ctl00_ContentPlaceHolder1_btnBuscar",
                   "button[type=submit]">> ]

RESULT_ITEM_SELECTORS == <<".resultadoItem", ".card-body", "div.resultado", "div.search-result">>

DOWNLOAD_FILTERS == <<PDFW, WORDW, DOCXW>>

LABEL_CONCORDANCIAS == <<CONCW, CONCSW>>

LABEL_JURIS == <<JURW, SENTW, JURSW, SENTSW>>

\* str.lower() on the letters the labels use
LowerChar(c) ==
    CASE c = "A" -> "a" [] c = "C" -> "c" [] c = "D" -> "d" [] c = "E" -> "e"
      [] c = "F" -> "f" [] c = "I" -> "i" [] c = "J" -> "j" [] c = "N" -> "n"
      [] c = "O" -> "o" [] c = "P" -> "p" [] c = "R" -> "r" [] c = "S" -> "s"
      [] c = "T" -> "t" [] c = "V" -> "v" [] c = "W" -> "w" [] c = "X" -> "x"
      [] OTHER -> c

lower(t) == [i \in 1..Len(t) |-> LowerChar(t[i])]

\* k in t  (substring)
Contains(t, k) == \E i \in 1..(Len(t) - Len(k) + 1) : SubSeq(t, i, i + Len(k) - 1) = k

\* any(k in t for k in words)
AnyIn(t, words) == \E j \in 1..Len(words) : Contains(t, words[j])

\* a classifier that tests the label as written, without lowercasing it
_classify_link_cased(text) ==
    IF AnyIn(text, DOWNLOAD_FILTERS) THEN "descarga"
    ELSE IF AnyIn(text, LABEL_CONCORDANCIAS) THEN "concordancia"
    ELSE IF AnyIn(text, LABEL_JURIS) THEN "jurisprudencia"
    ELSE "otro"

_classify_link(text) ==
    LET t == lower(text) IN
    IF AnyIn(t, DOWNLOAD_FILTERS) THEN "descarga"
    ELSE IF AnyIn(t, LABEL_CONCORDANCIAS) THEN "concordancia"
    ELSE IF AnyIn(t, LABEL_JURIS) THEN "jurisprudencia"
    ELSE "otro"

\* anchor labels the FielWeb result pages show
LABELS == <<LBL_PDF, LBL_CONC, LBL_SENT, LBL_VER, LBL_CONC_PDF, LBL_EMPTY>>

\* Result container i found by RESULT_ITEM_SELECTORS[j]
FielNode(j, i) ==
    [ text    |-> <<<<j, i>>, 0>>,
      by      |-> RESULT_ITEM_SELECTORS[j],
      anchors |-> IF i % 3 = 0 THEN <<>>
                  ELSE IF i % 3 = 2
                  THEN <<[href |-> NoHref, text |-> LABELS[(i % 6) + 1]],
                         [href |-> Rel(i), text |-> LABELS[((i + j) % 6) + 1]]>>
                  ELSE <<[href |-> Abs(i), text |-> LABELS[((i + j) % 6) + 1]]>> ]

\* What page.query_selector_all finds for each of RESULT_ITEM_SELECTORS:
\* the selectors before `first` find nothing, `first` finds n containers,
\* every later selector finds two
FielPage(first, n) ==
    [j \in 1..4 |-> IF j < first \/ first = 0 THEN <<>>
                    ELSE IF j = first THEN [i \in 1..n |-> FielNode(j, i)]
                    ELSE [i \in 1..2 |-> FielNode(j, i)]]

FielPages ==
    {FielPage(1, n) : n \in PageSizes} \cup {FielPage(f, 2) : f \in 2..4}

\* for sel in RESULT_ITEM_SELECTORS: nodes = ...; if nodes: ... break
\* lines 126-128, 144: the containers of the first selector that finds any
RECURSIVE FirstNodes(_, _)
FirstNodes(page, j) ==
    IF j > Len(RESULT_ITEM_SELECTORS) THEN <<>>
    ELSE IF page[j] # <<>> THEN page[j]
    ELSE FirstNodes(page, j + 1)

\* lines 132-142: the enlaces of one container
RECURSIVE Enlaces(_)
Enlaces(links) ==
    IF links = <<>> THEN <<>>
    ELSE LET a == Head(links)
             tipo == _classify_link(a.text)
         IN  IF a.href.kind # "none"
             THEN <<[tipo  |-> tipo,
                     texto |-> IF strip(a.text) # <<>> THEN strip(a.text) ELSE ENLACEW,
                     url   |-> _abs_url("FielWeb", a.href)]>> \o Enlaces(Tail(links))
             ELSE Enlaces(Tail(links))

\* lines 129-143: one entry per container
RECURSIVE FielEntries(_)
FielEntries(ns) ==
    IF ns = <<>> THEN <<>>
    ELSE <<[titulo |-> Head(Head(ns).text), enlaces |-> Enlaces(Head(ns).anchors)]>>
         \o FielEntries(Tail(ns))

FielExtract(ns) == FielEntries(Take(ns, MAX_ITEMS))

LOGIN_FORM_ERROR == "Campos de login no encontrados (posible cambio en FielWeb)."

SEARCH_FORM_ERROR == "No se encontraron los controles de busqueda."

CREDENTIALS_ERROR == "Faltan variables de entorno para FielWeb (URL, usuario o contrasena)."

----------------------------------------------------------------------------
(* fielweb_connector.py: consultar_fielweb and _buscar_en_fielweb_async *)

\* consultar_fielweb, lines 186-188
CF_Entry ==
    /\ pc = "cf_entry"
    /\ LET v == GetOr(payload, "texto", GetOr(payload, "consulta", <<>>))
           t == strip(v)
       IN  IF v = NotText
           THEN /\ exc' = "AttributeError"
                /\ pc' = "ep_except"
                /\ UNCHANGED <<texto, resultado_fielweb>>
           ELSE IF t = <<>>
           THEN /\ resultado_fielweb' =
                       [error |-> <<"Debe proporcionar un texto de busqueda en 'texto' o 'consulta'.">>]
                /\ pc' = AfterFielweb
                /\ UNCHANGED <<texto, exc>>
           ELSE /\ texto' = t
                /\ pc' = "f_start"
                /\ UNCHANGED <<resultado_fielweb, exc>>
    /\ UNCHANGED <<request, call, session, settle, ret, chromium, touched, sel, idx, nodes,
                   resultados, srcResult, resultado_juris, response>>

\* _buscar_en_fielweb_async without the check of lines 151-152
F_StartUnchecked ==
    /\ pc = "f_start"
    /\ \/ /\ pc' = "f_launch"
          /\ exc' = exc
       \/ \E e \in Raised :
             /\ exc' = e
             /\ pc' = "cf_result"
    /\ UNCHANGED <<request, call, session, settle, texto, ret, chromium, touched, sel, idx, nodes,
                   resultados, srcResult, resultado_fielweb, resultado_juris,
                   response>>

\* asyncio.run(_buscar_en_fielweb_async(texto)): lines 151-164
F_Start ==
    /\ pc = "f_start"
    /\ IF ~(config["FIELWEB_URL"] /\ config["USERNAME"] /\ config["PASSWORD"])
       THEN /\ exc' = CREDENTIALS_ERROR
            /\ pc' = "cf_result"
       ELSE \/ /\ pc' = "f_launch"
               /\ exc' = exc
            \/ \E e \in Raised :
                  /\ exc' = e
                  /\ pc' = "cf_result"
    /\ UNCHANGED <<request, call, session, settle, texto, ret, chromium, touched, sel, idx, nodes,
                   resultados, srcResult, resultado_fielweb, resultado_juris,
                   response>>

\* browser = await p.chromium.launch(...), line 165
F_Launch ==
    /\ pc = "f_launch"
    /\ \/ /\ chromium' = [chromium EXCEPT !["FielWeb"].browser = "open"]
          /\ touched' = Touch("FielWeb", "launch")
          /\ pc' = "f_new_context"
          /\ exc' = exc
       \/ \E e \in Raised :
             /\ exc' = e
             /\ pc' = "f_pw_exit"
             /\ UNCHANGED <<chromium, touched>>
    /\ UNCHANGED <<request, call, session, settle, texto, ret, sel, idx, nodes, resultados, srcResult,
                   resultado_fielweb, resultado_juris, response>>

\* context = await browser.new_context(), line 166
F_NewContext ==
    /\ pc = "f_new_context"
    /\ \/ /\ chromium' = [chromium EXCEPT !["FielWeb"].context = "open"]
          /\ pc' = "f_new_page"
          /\ exc' = exc
       \/ \E e \in Raised :
             /\ exc' = e
             /\ pc' = "f_pw_exit"
             /\ chromium' = chromium
    /\ UNCHANGED <<request, call, session, settle, texto, ret, touched, sel, idx, nodes, resultados,
                   srcResult, resultado_fielweb, resultado_juris, response>>

\* page = await context.new_page(), lines 167-170
F_NewPage ==
    /\ pc = "f_new_page"
    /\ \/ /\ pc' = "f_login_goto"
          /\ exc' = exc
       \/ \E e \in Raised :
             /\ exc' = e
             /\ pc' = "f_pw_exit"
    /\ UNCHANGED <<request, call, session, settle, texto, ret, chromium, touched, sel, idx, nodes,
                   resultados, srcResult, resultado_fielweb, resultado_juris,
                   response>>

\* what no step inside the try of _buscar_en_fielweb_async changes
fielFrame == <<request, call, session, texto, exc, chromium, idx, resultados, srcResult,
               resultado_fielweb, resultado_juris, response>>

\* except Exception as e: return {"error": ...}, lines 175-176
F_Caught(e) ==
    /\ ret' = [error |-> <<"Error interno en la busqueda", e>>,
               nivel_consulta |-> "FielWeb"]
    /\ pc' = "f_context_close"
    /\ sel' = NoSel
    /\ nodes' = <<>>
    /\ settle' = settle

F_Goes(to) ==
    /\ pc' = to
    /\ UNCHANGED <<ret, nodes, settle>>

\* the flow goes on to step `to`, the page after `what` judged loaded as `how`
F_Settles(to, what, how) ==
    /\ pc' = to
    /\ settle' = [settle EXCEPT ![what] = how]
    /\ UNCHANGED <<ret, nodes>>

\* _login: await page.goto(url, ...), line 89
F_LoginGoto ==
    /\ pc = "f_login_goto"
    /\ touched' = Touch("FielWeb", "goto")
    /\ \/ F_Goes("f_user_sel") /\ sel' = sel
       \/ \E e \in Raised : F_Caught(e)
    /\ UNCHANGED fielFrame

\* user_sel = await _first_selector(page, LOGIN_SELECTORS["user"]), line 91
F_UserSel ==
    /\ pc = "f_user_sel"
    /\ \E probe \in Probes(LOGIN_SELECTORS.user) :
          sel' = [sel EXCEPT !.user = _first_selector(probe, LOGIN_SELECTORS.user)]
    /\ F_Goes("f_pass_sel")
    /\ UNCHANGED touched
    /\ UNCHANGED fielFrame

\* pass_sel = await _first_selector(page, LOGIN_SELECTORS["password"]), line 92
F_PassSel ==
    /\ pc = "f_pass_sel"
    /\ \E probe \in Probes(LOGIN_SELECTORS.password) :
          sel' = [sel EXCEPT !.pass = _first_selector(probe, LOGIN_SELECTORS.password)]
    /\ F_Goes("f_subm_sel")
    /\ UNCHANGED touched
    /\ UNCHANGED fielFrame

\* a login that goes on to fill whatever was resolved, without the check of line 95
F_SubmSelUnchecked ==
    /\ pc = "f_subm_sel"
    /\ \E probe \in Probes(LOGIN_SELECTORS.submit) :
          sel' = [sel EXCEPT !.subm = _first_selector(probe, LOGIN_SELECTORS.submit)]
    /\ F_Goes("f_fill_user")
    /\ UNCHANGED touched
    /\ UNCHANGED fielFrame

\* subm_sel = ...; if not all([user_sel, pass_sel, subm_sel]): raise: lines 93-96
F_SubmSel ==
    /\ pc = "f_subm_sel"
    /\ \E probe \in Probes(LOGIN_SELECTORS.submit) :
          LET subm == _first_selector(probe, LOGIN_SELECTORS.submit) IN
          IF sel.user = None \/ sel.pass = None \/ subm = None
          THEN F_Caught(LOGIN_FORM_ERROR)
          ELSE /\ sel' = [sel EXCEPT !.subm = subm]
               /\ F_Goes("f_fill_user")
    /\ UNCHANGED touched
    /\ UNCHANGED fielFrame

\* await page.fill(user_sel, user), line 98
F_FillUser ==
    /\ pc = "f_fill_user"
    /\ touched' = Touch("FielWeb", "fill")
    /\ \/ F_Goes("f_fill_pass") /\ sel' = sel
       \/ \E e \in Raised : F_Caught(e)
    /\ UNCHANGED fielFrame

\* await page.fill(pass_sel, password), line 99
F_FillPass ==
    /\ pc = "f_fill_pass"
    /\ touched' = Touch("FielWeb", "fill")
    /\ \/ F_Goes("f_login_click") /\ sel' = sel
       \/ \E e \in Raised : F_Caught(e)
    /\ UNCHANGED fielFrame

\* await page.click(subm_sel), line 100
F_LoginClick ==
    /\ pc = "f_login_click"
    /\ touched' = Touch("FielWeb", "click")
    /\ \/ F_Goes("f_login_wait") /\ sel' = NoSel
       \/ \E e \in Raised : F_Caught(e)
    /\ UNCHANGED fielFrame

\* a settle wait without its own try: the timeout reaches the handler of line 175
F_LoginWaitFatal ==
    /\ pc = "f_login_wait"
    /\ \/ F_Settles("f_pause", "login", "idle") /\ sel' = sel
       \/ \E e \in Raised : F_Caught(e)
    /\ UNCHANGED touched
    /\ UNCHANGED fielFrame

\* try: await page.wait_for_load_state("networkidle") except PWTimeout: lines 102-105
F_LoginWait ==
    /\ pc = "f_login_wait"
    /\ \/ F_Settles("f_pause", "login", "idle") /\ sel' = sel
       \/ F_Settles("f_login_grace", "login", "timeout") /\ sel' = sel
       \/ F_Caught("Error")
    /\ UNCHANGED touched
    /\ UNCHANGED fielFrame

\* await page.wait_for_timeout(2000), line 106
F_LoginGrace ==
    /\ pc = "f_login_grace"
    /\ \/ F_Settles("f_pause", "login", "grace") /\ sel' = sel
       \/ \E e \in Raised : F_Caught(e)
    /\ UNCHANGED touched
    /\ UNCHANGED fielFrame

\* await page.wait_for_timeout(2500), line 172
F_Pause ==
    /\ pc = "f_pause"
    /\ \/ F_Goes("f_q_sel") /\ sel' = sel
       \/ \E e \in Raised : F_Caught(e)
    /\ UNCHANGED touched
    /\ UNCHANGED fielFrame

\* _buscar: q_sel = await _first_selector(page, SEARCH_SELECTORS["query"]), line 113
F_QSel ==
    /\ pc = "f_q_sel"
    /\ \E probe \in Probes(SEARCH_SELECTORS.query) :
          sel' = [sel EXCEPT !.q = _first_selector(probe, SEARCH_SELECTORS.query)]
    /\ F_Goes("f_b_sel")
    /\ UNCHANGED touched
    /\ UNCHANGED fielFrame

\* b_sel = ...; if not all([q_sel, b_sel]): raise RuntimeError: lines 114-116
F_BSel ==
    /\ pc = "f_b_sel"
    /\ \E probe \in Probes(SEARCH_SELECTORS.submit) :
          LET b == _first_selector(probe, SEARCH_SELECTORS.submit) IN
          IF sel.q = None \/ b = None
          THEN F_Caught(SEARCH_FORM_ERROR)
          ELSE /\ sel' = [sel EXCEPT !.b = b]
               /\ F_Goes("f_fill")
    /\ UNCHANGED touched
    /\ UNCHANGED fielFrame

\* await page.fill(q_sel, texto), line 118
F_Fill ==
    /\ pc = "f_fill"
    /\ touched' = Touch("FielWeb", "fill")
    /\ \/ F_Goes("f_click") /\ sel' = sel
       \/ \E e \in Raised : F_Caught(e)
    /\ UNCHANGED fielFrame

\* await page.click(b_sel), line 119
F_Click ==
    /\ pc = "f_click"
    /\ touched' = Touch("FielWeb", "click")
    /\ \/ F_Goes("f_wait") /\ sel' = NoSel
       \/ \E e \in Raised : F_Caught(e)
    /\ UNCHANGED fielFrame

\* try: await page.wait_for_load_state("networkidle") except PWTimeout: lines 120-122
F_Wait ==
    /\ pc = "f_wait"
    /\ \/ F_Settles("f_results", "search", "idle") /\ sel' = sel
       \/ F_Settles("f_grace", "search", "timeout") /\ sel' = sel
       \/ F_Caught("Error")
    /\ UNCHANGED touched
    /\ UNCHANGED fielFrame

\* await page.wait_for_timeout(2000), line 123
F_Grace ==
    /\ pc = "f_grace"
    /\ \/ F_Settles("f_results", "search", "grace") /\ sel' = sel
       \/ \E e \in Raised : F_Caught(e)
    /\ UNCHANGED touched
    /\ UNCHANGED fielFrame

\* for sel in RESULT_ITEM_SELECTORS: nodes = await page.query_selector_all(sel)
\* lines 126-128
F_Results ==
    /\ pc = "f_results"
    /\ \/ \E page \in FielPages :
             /\ nodes' = FirstNodes(page, 1)
             /\ pc' = "f_extract"
             /\ UNCHANGED <<ret, sel, settle>>
       \/ \E e \in Raised : F_Caught(e)
    /\ UNCHANGED touched
    /\ UNCHANGED fielFrame

\* lines 129-145 and 174: the entries of nodes[:MAX_ITEMS], then
\* return {"mensaje", "nivel_consulta", "resultado": data};
\* node.inner_text, query_selector_all and get_attribute may raise
F_Extract ==
    /\ pc = "f_extract"
    /\ \/ /\ ret' = [mensaje |-> <<"Resultados para", texto>>,
                     nivel_consulta |-> "FielWeb",
                     resultado |-> FielExtract(nodes)]
          /\ pc' = "f_context_close"
          /\ nodes' = <<>>
          /\ UNCHANGED <<sel, settle>>
       \/ /\ nodes # <<>>
          /\ \E e \in Raised : F_Caught(e)
    /\ UNCHANGED touched
    /\ UNCHANGED fielFrame

\* finally: await context.close(), line 178
F_ContextClose ==
    /\ pc = "f_context_close"
    /\ \/ /\ chromium' = [chromium EXCEPT !["FielWeb"].context = "closed"]
          /\ pc' = "f_browser_close"
          /\ UNCHANGED <<exc, ret>>
       \/ \E e \in Raised :
             /\ exc' = e
             /\ ret' = NoDict
             /\ pc' = "f_pw_exit"
             /\ chromium' = chromium
    /\ UNCHANGED <<request, call, session, settle, texto, touched, sel, idx, nodes, resultados,
                   srcResult, resultado_fielweb, resultado_juris, response>>

\* await browser.close(), line 179
F_BrowserClose ==
    /\ pc = "f_browser_close"
    /\ \/ /\ chromium' = [chromium EXCEPT !["FielWeb"].browser = "closed"]
          /\ UNCHANGED <<exc, ret>>
       \/ \E e \in Raised :
             /\ exc' = e
             /\ ret' = NoDict
             /\ chromium' = chromium
    /\ pc' = "f_pw_exit"
    /\ UNCHANGED <<request, call, session, settle, texto, touched, sel, idx, nodes, resultados,
                   srcResult, resultado_fielweb, resultado_juris, response>>

\* leaving `async with async_playwright() as p`, line 164
F_PwExit ==
    /\ pc = "f_pw_exit"
    /\ pc' = "cf_result"
    /\ UNCHANGED <<request, call, session, settle, texto, exc, ret, chromium, touched, sel, idx, nodes,
                   resultados, srcResult, resultado_fielweb, resultado_juris,
                   response>>

\* consultar_fielweb without its except clauses
CF_ResultNoExcept ==
    /\ pc = "cf_result"
    /\ IF exc = None
       THEN /\ resultado_fielweb' = ret
            /\ pc' = AfterFielweb
       ELSE /\ resultado_fielweb' = resultado_fielweb
            /\ pc' = "ep_except"
    /\ ret' = NoDict
    /\ settle' = NotSettled
    /\ UNCHANGED <<request, call, session, texto, exc, chromium, touched, sel, idx, nodes,
                   resultados, srcResult, resultado_juris, response>>

\* consultar_fielweb, lines 190-195
CF_Result ==
    /\ pc = "cf_result"
    /\ resultado_fielweb' =
          IF exc = None THEN ret
          ELSE IF exc = "PWTimeout"
          THEN [error |-> <<"Tiempo de espera agotado", exc>>,
                nivel_consulta |-> "FielWeb"]
          ELSE [error |-> <<"Error general al consultar FielWeb", exc>>,
                nivel_consulta |-> "FielWeb"]
    /\ exc' = None
    /\ ret' = NoDict
    /\ pc' = AfterFielweb
    /\ settle' = NotSettled
    /\ UNCHANGED <<request, call, session, texto, chromium, touched, sel, idx, nodes,
                   resultados, srcResult, resultado_juris, response>>

----------------------------------------------------------------------------
(* main.py: the endpoints *)

\* consult_fielweb_endpoint lines 72-75, consult_jurisprudencia_endpoint
\* lines 85-88, consult_hybrid lines 98-103
EP_Request ==
    /\ pc = "request"
    /\ IF endpoint = "consult_hybrid"
       THEN IF connectors
            THEN /\ pc' = "cf_entry"
                 /\ UNCHANGED <<resultado_fielweb, resultado_juris, response>>
            ELSE /\ resultado_fielweb' = PyNone
                 /\ resultado_juris' = PyNone
                 /\ pc' = "hy_respond"
                 /\ response' = response
       ELSE IF ~connectors
            THEN /\ response' =
                        [status |-> 500,
                         detail |-> IF endpoint = "consult_real_fielweb"
                                    THEN "Conector FielWeb no disponible."
                                    ELSE "Conector de Jurisprudencia no disponible."]
                 /\ pc' = "done"
                 /\ UNCHANGED <<resultado_fielweb, resultado_juris>>
            ELSE /\ pc' = IF endpoint = "consult_real_fielweb"
                          THEN "cf_entry" ELSE "cj_entry"
                 /\ UNCHANGED <<resultado_fielweb, resultado_juris, response>>
    /\ UNCHANGED <<request, call, session, settle, texto, exc, ret, chromium, touched, sel, idx, nodes,
                   resultados, srcResult>>

\* return consultar_fielweb(payload) / return consultar_jurisprudencia(payload)
\* lines 75, 88
EP_Return ==
    /\ pc = "ep_return"
    /\ response' = [status |-> 200,
                    body |-> IF endpoint = "consult_real_fielweb"
                             THEN resultado_fielweb ELSE resultado_juris]
    /\ pc' = "done"
    /\ UNCHANGED <<request, call, session, settle, texto, exc, ret, chromium, touched, sel, idx, nodes,
                   resultados, srcResult, resultado_fielweb, resultado_juris>>

\* except Exception as e: raise HTTPException(status_code=500, ...)
\* lines 76-78, 89-91, 122-124
EP_Except ==
    /\ pc = "ep_except"
    /\ response' = [status |-> 500,
                    detail |-> <<CASE endpoint = "consult_real_fielweb" -> "Error FielWeb"
                                   [] endpoint = "consult_real_jurisprudencia" -> "Error Jurisprudencia"
                                   [] OTHER -> "Error hibrido", exc>>]
    /\ exc' = None
    /\ pc' = "done"
    /\ UNCHANGED <<request, call, session, settle, texto, ret, chromium, touched, sel, idx, nodes,
                   resultados, srcResult, resultado_fielweb, resultado_juris>>

\* consult_hybrid, lines 105-120
HY_Respond ==
    /\ pc = "hy_respond"
    /\ response' =
          [status |-> 200,
           body |-> [status |-> "ok",
                     texto_consultado |-> IF "texto" \in DOMAIN payload
                                          THEN payload.texto ELSE <<>>,
                     fuentes_consultadas |->
                         [FielWeb |-> PyBool(resultado_fielweb),
                          Jurisprudencia |-> PyBool(resultado_juris)],
                     resultado |->
                         [normativa_y_concordancias |->
                              IF PyBool(resultado_fielweb)
                              THEN GetResultado(resultado_fielweb) ELSE << <<>> >>,
                          jurisprudencia_y_sentencias |->
                              IF PyBool(resultado_juris)
                              THEN GetResultado(resultado_juris) ELSE << <<>> >>]]]
    /\ pc' = "done"
    /\ UNCHANGED <<request, call, session, settle, texto, exc, ret, chromium, touched, sel, idx, nodes,
                   resultados, srcResult, resultado_fielweb, resultado_juris>>

----------------------------------------------------------------------------
(* The specification *)

Next ==
    \/ EP_Request \/ EP_Return \/ EP_Except \/ HY_Respond
    \/ CF_Entry \/ F_Start \/ F_Launch \/ F_NewContext \/ F_NewPage
    \/ F_LoginGoto \/ F_UserSel \/ F_PassSel \/ F_SubmSel \/ F_FillUser
    \/ F_FillPass \/ F_LoginClick \/ F_LoginWait \/ F_LoginGrace \/ F_Pause
    \/ F_QSel \/ F_BSel \/ F_Fill \/ F_Click \/ F_Wait \/ F_Grace
    \/ F_Results \/ F_Extract
    \/ F_ContextClose \/ F_BrowserClose \/ F_PwExit \/ CF_Result
    \/ CJ_Entry \/ J_Start \/ J_Launch \/ J_NewContext \/ J_NewPage
    \/ J_Goto \/ J_QSel \/ J_BSel \/ J_Fill \/ J_Click \/ J_Wait \/ J_Grace
    \/ J_Query \/ J_Extract
    \/ J_Dedup \/ J_ContextClose \/ J_BrowserClose \/ J_PwExit \/ CJ_Result

Spec == Init /\ [][Next]_vars

----------------------------------------------------------------------------
(* The helper functions called on their own: _first_selector,              *)
(* _classify_link and _dedup, each on arguments drawn from bounded sets    *)

\* most tokens a generated anchor label is made of
MaxTokens == 2

\* most records a list given to _dedup holds
MaxRecords == 4

\* the candidate lists the connectors resolve, and the empty list
SelectorLists ==
    { QUERY_SELECTORS[1], QUERY_SELECTORS[2], BUTTON_SELECTORS,
      LOGIN_SELECTORS.user, LOGIN_SELECTORS.password, LOGIN_SELECTORS.submit,
      SEARCH_SELECTORS.query, SEARCH_SELECTORS.submit, <<>> }

\* the pieces anchor labels are made of, in lower, upper and mixed case
LabelTokens ==
    { PDFW, <<"P", "D", "F">>, <<"W", "o", "r", "d">>, DOCXW,
      CONCW, lower(CONCSW), JURW, lower(SENTSW), <<"V", "e", "r">>, <<" ">> }

RECURSIVE Flatten(_)
Flatten(ws) == IF ws = <<>> THEN <<>> ELSE Head(ws) \o Flatten(Tail(ws))

\* anchor labels: the ones of the result pages and every sequence of tokens
HelperLabels ==
    Range(LABELS)
        \cup {Flatten(ws) : ws \in UNION {[1..n -> LabelTokens] : n \in 0..MaxTokens}}

\* records as the adapters build them: two with the same URL, one with
\* another URL, one with an empty URL, and an error record (no url key)
HelperRecords ==
    { [fuente |-> SOURCES[1], titulo |-> 1, descripcion |-> DESCRIPCION[1],
       url |-> <<"docs", 1>>],
      [fuente |-> SOURCES[2], titulo |-> 2, descripcion |-> DESCRIPCION[2],
       url |-> <<"docs", 1>>],
      [fuente |-> SOURCES[1], titulo |-> 3, descripcion |-> DESCRIPCION[1],
       url |-> <<"docs", 2>>],
      [fuente |-> SOURCES[3], titulo |-> 4, descripcion |-> DESCRIPCION[3],
       url |-> NoUrl],
      ErrorRecord(2, "Error") }

HelperItems == UNION {[1..n -> HelperRecords] : n \in 0..MaxRecords}

HelperCalls ==
    UNION {{[fn |-> "_first_selector", selectors |-> l, page |-> q, done |-> 0,
             result |-> None] : q \in Probes(l)} : l \in SelectorLists}
        \cup {[fn |-> "_classify_link", texto |-> t, done |-> 0, result |-> None] :
                t \in HelperLabels}
        \cup {[fn |-> "_dedup", items |-> i, done |-> 0, result |-> <<>>,
               again |-> <<>>] : i \in HelperItems}

\* no request is being served
HelperInit ==
    /\ call \in HelperCalls
    /\ pc = "helper"
    /\ endpoint = "consult_hybrid"
    /\ payload = [tipo_usuario |-> <<"x">>]
    /\ config = [v \in {"FIELWEB_URL", "USERNAME", "PASSWORD"} |-> TRUE]
    /\ connectors = TRUE
    /\ texto = <<>>
    /\ exc = None
    /\ ret = NoDict
    /\ chromium = [c \in Connectors |-> [browser |-> "none", context |-> "none"]]
    /\ touched = [c \in Connectors |-> {}]
    /\ sel = NoSel
    /\ idx = 0
    /\ nodes = <<>>
    /\ resultados = <<>>
    /\ srcResult = [s \in 1..3 |-> Pending]
    /\ resultado_fielweb = NoDict
    /\ resultado_juris = NoDict
    /\ settle = NotSettled
    /\ response = NoDict
    /\ session = NoSession

\* what a helper call leaves alone
served == <<request, session, pc, texto, exc, ret, chromium, touched, sel, idx, nodes,
            resultados, srcResult, resultado_fielweb, resultado_juris, settle,
            response>>

\* _first_selector(page, selectors), lines 50-57 (and fielweb 68-75)
Helper_FirstSelector ==
    /\ call.fn = "_first_selector" /\ call.done = 0
    /\ call' = [call EXCEPT !.done = 1,
                            !.result = _first_selector(call.page, call.selectors)]
    /\ UNCHANGED served

\* _classify_link(texto), fielweb lines 77-82
Helper_ClassifyLink ==
    /\ call.fn = "_classify_link" /\ call.done = 0
    /\ call' = [call EXCEPT !.done = 1, !.result = _classify_link(call.texto)]
    /\ UNCHANGED served

\* _dedup(items), lines 72-79
Helper_Dedup ==
    /\ call.fn = "_dedup" /\ call.done = 0
    /\ call' = [call EXCEPT !.done = 1, !.result = _dedup(call.items)]
    /\ UNCHANGED served

\* _dedup applied to what _dedup returned
Helper_DedupAgain ==
    /\ call.fn = "_dedup" /\ call.done = 1
    /\ call' = [call EXCEPT !.done = 2, !.again = _dedup(call.result)]
    /\ UNCHANGED served

HelperNext ==
    \/ Helper_FirstSelector \/ Helper_ClassifyLink
    \/ Helper_Dedup \/ Helper_DedupAgain

HelperSpec == HelperInit /\ [][HelperNext]_vars

-----------------------------------------------------------------------------
(* fielweb_session_manager.py *)

\* calls made on one session file
MaxRuns == 2

\* SESSION_FILE: absent; the storage state of a logged-in context ("valid");
\* a storage state the site answers with the login form ("invalid": expired,
\* or saved without a login); not a storage state at all ("corrupt")
SessionFiles == {"absent", "valid", "invalid", "corrupt"}

SessionInit ==
    /\ session \in [file : SessionFiles, fn : {"none"}, context : {"none"},
                    page : {Markers}, settle : {"no"}, runs : {0}]
    /\ pc = "s_idle"
    /\ endpoint = "consult_hybrid"
    /\ payload = [tipo_usuario |-> <<"x">>]
    /\ config = [v \in {"FIELWEB_URL", "USERNAME", "PASSWORD"} |-> TRUE]
    /\ connectors = TRUE
    /\ texto = <<>>
    /\ exc = None
    /\ ret = NoDict
    /\ chromium = [c \in Connectors |-> [browser |-> "none", context |-> "none"]]
    /\ touched = [c \in Connectors |-> {}]
    /\ sel = NoSel
    /\ idx = 0
    /\ nodes = <<>>
    /\ resultados = <<>>
    /\ srcResult = [s \in 1..3 |-> Pending]
    /\ resultado_fielweb = NoDict
    /\ resultado_juris = NoDict
    /\ settle = NotSettled
    /\ response = NoDict
    /\ call = NoCall

\* what a call of the session manager leaves alone
sessionFrame == <<request, call, texto, chromium, touched, sel, idx, nodes,
                  resultados, srcResult, resultado_fielweb, resultado_juris,
                  settle, response>>

\* asyncio.run(cargar_o_iniciar_sesion()) or asyncio.run(probar_sesion()):
\* async with async_playwright() as p, lines 23, 63
S_Call ==
    /\ pc = "s_idle"
    /\ session.runs < MaxRuns
    /\ \E fn \in {"cargar_o_iniciar_sesion", "probar_sesion"} :
          /\ session' = [session EXCEPT !.fn = fn, !.context = "none",
                                         !.page = Markers, !.settle = "no",
                                         !.runs = @ + 1]
          /\ pc' = "s_launch"
    /\ exc' = None
    /\ ret' = NoDict
    /\ UNCHANGED sessionFrame

\* an exception leaves the function through the async with
S_Propagates(e) ==
    /\ exc' = e
    /\ ret' = NoDict
    /\ pc' = "s_pw_exit"
    /\ session' = session

\* the next await of the function
S_Goes(to) ==
    /\ pc' = to
    /\ UNCHANGED <<exc, ret, session>>

\* browser = await p.chromium.launch(...), lines 24, 64
S_Launch ==
    /\ pc = "s_launch"
    /\ \/ S_Goes(IF session.fn = "probar_sesion" THEN "p_new_context" ELSE "s_exists")
       \/ \E e \in Raised : S_Propagates(e)
    /\ UNCHANGED sessionFrame

\* if os.path.exists(SESSION_FILE), line 28
S_Exists ==
    /\ pc = "s_exists"
    /\ S_Goes(IF session.file # "absent" THEN "s_load_context" ELSE "s_new_context")
    /\ UNCHANGED sessionFrame

\* except Exception as e: print(...), lines 35-36; the fresh login follows
S_LoadFails ==
    /\ pc' = "s_new_context"
    /\ session' = [session EXCEPT !.context = "none"]
    /\ UNCHANGED <<exc, ret>>

\* context = await browser.new_context(storage_state=SESSION_FILE), line 30
S_LoadContext ==
    /\ pc = "s_load_context"
    /\ \/ /\ session.file # "corrupt"
          /\ session' = [session EXCEPT !.context = "file"]
          /\ pc' = "s_load_page"
          /\ UNCHANGED <<exc, ret>>
       \/ S_LoadFails
    /\ UNCHANGED sessionFrame

\* page = await context.new_page(), line 31
S_LoadPage ==
    /\ pc = "s_load_page"
    /\ \/ S_Goes("s_load_goto")
       \/ S_LoadFails
    /\ UNCHANGED sessionFrame

\* what LOGIN_URL shows to a context: the login form unless the context holds
\* a logged-in state
Shown(state) == IF state = "valid" THEN {} ELSE Markers

\* await page.goto(LOGIN_URL); return page, context: lines 32-34
S_LoadGoto ==
    /\ pc = "s_load_goto"
    /\ \/ /\ session' = [session EXCEPT !.page = Shown(session.file)]
          /\ ret' = [page |-> Shown(session.file), context |-> "file"]
          /\ pc' = "s_pw_exit"
          /\ exc' = exc
       \/ S_LoadFails
    /\ UNCHANGED sessionFrame

\* context = await browser.new_context(), line 39
S_NewContext ==
    /\ pc = "s_new_context"
    /\ \/ /\ session' = [session EXCEPT !.context = "fresh"]
          /\ pc' = "s_new_page"
          /\ UNCHANGED <<exc, ret>>
       \/ \E e \in Raised : S_Propagates(e)
    /\ UNCHANGED sessionFrame

\* page = await context.new_page(), line 40
S_NewPage ==
    /\ pc = "s_new_page"
    /\ \/ S_Goes("s_goto")
       \/ \E e \in Raised : S_Propagates(e)
    /\ UNCHANGED sessionFrame

\* await page.goto(LOGIN_URL), line 41
S_Goto ==
    /\ pc = "s_goto"
    /\ \/ S_Goes("s_fill_user")
       \/ \E e \in Raised : S_Propagates(e)
    /\ UNCHANGED sessionFrame

\* await page.fill('#usuario, ...', USERNAME), line 45
S_FillUser ==
    /\ pc = "s_fill_user"
    /\ \/ S_Goes("s_fill_pass")
       \/ \E e \in Raised : S_Propagates(e)
    /\ UNCHANGED sessionFrame

\* await page.fill('#clave, ...', PASSWORD), line 46
S_FillPass ==
    /\ pc = "s_fill_pass"
    /\ \/ S_Goes("s_click")
       \/ \E e \in Raised : S_Propagates(e)
    /\ UNCHANGED sessionFrame

\* await page.click('#btnEntrar, ...'), line 47: the site accepts
\* the credentials or shows the form again
S_Click ==
    /\ pc = "s_click"
    /\ \/ \E shown \in {{}, Markers} :
             /\ session' = [session EXCEPT !.page = shown]
             /\ pc' = "s_wait"
             /\ UNCHANGED <<exc, ret>>
       \/ \E e \in Raised : S_Propagates(e)
    /\ UNCHANGED sessionFrame

\* try: await page.wait_for_load_state("networkidle") except PWTimeout: print,
\* lines 49-52
S_Wait ==
    /\ pc = "s_wait"
    /\ \/ \E how \in {"idle", "timeout"} :
             /\ session' = [session EXCEPT !.settle = how]
             /\ pc' = "s_save"
             /\ UNCHANGED <<exc, ret>>
       \/ S_Propagates("Error")
    /\ UNCHANGED sessionFrame

\* the storage state of a context whose page shows `shown`
StateOf(shown) == IF shown = {} THEN "valid" ELSE "invalid"

\* await guardar_sesion(page); return page, context: lines 55, 58 and 13-18
S_Save ==
    /\ pc = "s_save"
    /\ \/ /\ session' = [session EXCEPT !.file = StateOf(session.page)]
          /\ ret' = [page |-> session.page, context |-> "fresh"]
          /\ pc' = "s_pw_exit"
          /\ exc' = exc
       \/ \E e \in Raised : S_Propagates(e)
    /\ UNCHANGED sessionFrame

\* context = await browser.new_context(storage_state=SESSION_FILE if
\* os.path.exists(SESSION_FILE) else None), line 65
P_NewContext ==
    /\ pc = "p_new_context"
    /\ \/ /\ session.file # "corrupt"
          /\ session' = [session EXCEPT !.context =
                             IF session.file = "absent" THEN "fresh" ELSE "file"]
          /\ pc' = "p_new_page"
          /\ UNCHANGED <<exc, ret>>
       \/ \E e \in Raised : S_Propagates(e)
    /\ UNCHANGED sessionFrame

\* page = await context.new_page(), line 66
P_NewPage ==
    /\ pc = "p_new_page"
    /\ \/ S_Goes("p_goto")
       \/ \E e \in Raised : S_Propagates(e)
    /\ UNCHANGED sessionFrame

\* an exception inside the try of lines 67-78 runs the finally
P_Raises(e) ==
    /\ exc' = e
    /\ ret' = NoDict
    /\ pc' = "p_context_close"
    /\ session' = session

\* await page.goto(LOGIN_URL), line 68
P_Goto ==
    /\ pc = "p_goto"
    /\ \/ /\ session' = [session EXCEPT !.page = Shown(session.file)]
          /\ pc' = "p_content"
          /\ UNCHANGED <<exc, ret>>
       \/ \E e \in Raised : P_Raises(e)
    /\ UNCHANGED sessionFrame

\* content = await page.content();
\* if "Usuario" not in content and "Clave" not in content: return True
\* else: return False, lines 69-75
P_Content ==
    /\ pc = "p_content"
    /\ \/ /\ ret' = [valid |-> ("Usuario" \notin session.page
                                 /\ "Clave" \notin session.page)]
          /\ pc' = "p_context_close"
          /\ UNCHANGED <<exc, session>>
       \/ \E e \in Raised : P_Raises(e)
    /\ UNCHANGED sessionFrame

\* finally: await context.close(), line 77
P_ContextClose ==
    /\ pc = "p_context_close"
    /\ \/ /\ session' = [session EXCEPT !.context = "none"]
          /\ pc' = "p_browser_close"
          /\ UNCHANGED <<exc, ret>>
       \/ \E e \in Raised : S_Propagates(e)
    /\ UNCHANGED sessionFrame

\* await browser.close(), line 78
P_BrowserClose ==
    /\ pc = "p_browser_close"
    /\ \/ S_Goes("s_pw_exit")
       \/ \E e \in Raised : S_Propagates(e)
    /\ UNCHANGED sessionFrame

\* the async with of line 23 / 63 ends: the call has returned or raised
S_PwExit ==
    /\ pc = "s_pw_exit"
    /\ pc' = "s_idle"
    /\ UNCHANGED <<exc, ret, session>>
    /\ UNCHANGED sessionFrame

SessionNext ==
    \/ S_Call \/ S_Launch \/ S_Exists
    \/ S_LoadContext \/ S_LoadPage \/ S_LoadGoto
    \/ S_NewContext \/ S_NewPage \/ S_Goto
    \/ S_FillUser \/ S_FillPass \/ S_Click \/ S_Wait \/ S_Save
    \/ P_NewContext \/ P_NewPage \/ P_Goto \/ P_Content
    \/ P_ContextClose \/ P_BrowserClose
    \/ S_PwExit

SessionSpec == SessionInit /\ [][SessionNext]_vars


----------------------------------------------------------------------------
(* Properties *)

Entries(s) == srcResult[s].entries

\* what the sources returned, in declaration order
Concat == Entries(1) \o Entries(2) \o Entries(3)

Urls(seq) == {seq[i].url : i \in 1..Len(seq)}

SourceRaised(s) == srcResult[s].status = "raised"

\* the finally block of _buscar_juris_async, its locals still alive
InFinally == pc \in {"j_context_close", "j_browser_close"}

\* ... entered through the return statement of line 220
Live == InFinally /\ "resultado" \in DOMAIN ret

\* the adapter loop is running or has just ended
InLoop == pc \in {"j_goto", "j_q_sel", "j_b_sel", "j_fill", "j_click", "j_wait",
                  "j_grace", "j_query", "j_extract", "j_dedup"}

\* positions of the first occurrence of each URL
FirstIdx(seq) == {j \in 1..Len(seq) : \A i \in 1..(j - 1) : seq[i].url # seq[j].url}

\* the dict a connector returned, once it has returned
ResultOf(c) == IF c = "FielWeb" THEN resultado_fielweb ELSE resultado_juris

HasReturned(c) == ResultOf(c) \notin {NoDict, PyNone}

\* the keys consultar_fielweb / consultar_jurisprudencia read the text from
TextKeys(c) == IF c = "FielWeb" THEN {"texto", "consulta"}
               ELSE {"texto", "palabras_clave"}

\* the query text of connector c is missing, empty or only whitespace
BlankFor(c) ==
    \A k \in TextKeys(c) :
        k \notin DOMAIN payload \/ \A i \in 1..Len(payload[k]) : payload[k][i] = " "

\* C1 as stated: the exception of an adapter stays in the loop, every
\* later adapter is run, and every entry a later adapter returns is in
\* the merged list (resultados after line 219).
C1_LaterEntriesAllMerged ==
    InFinally =>
        /\ "resultado" \in DOMAIN ret
        /\ \A s \in 1..3 : srcResult[s].status # "pending"
        /\ \A s \in 1..3 : \A k \in 1..Len(Entries(s)) :
              (\E r \in 1..(s - 1) : SourceRaised(r))
                  => Entries(s)[k] \in Range(resultados)

\* C1, amended: the exception of an adapter stays in the loop (the finally
\* block is entered only through the return statement, with all three
\* adapters run), and an entry a later adapter returns is in the merged
\* list exactly when no earlier source returned the same URL.
C1_FailureIsolated ==
    InFinally =>
        /\ "resultado" \in DOMAIN ret
        /\ \A s \in 1..3 : srcResult[s].status # "pending"
        /\ \A s \in 1..3 : \A k \in 1..Len(Entries(s)) :
              (Entries(s)[k] \in Range(resultados))
                  <=> ~(\E r \in 1..(s - 1) : Entries(s)[k].url \in Urls(Entries(r)))

C1_Witness ==
    /\ Live
    /\ \E r \in 1..3, s \in 1..3 :
          /\ r < s
          /\ SourceRaised(r)
          /\ Entries(s) # <<>>
          /\ Range(Entries(s)) \subseteq Range(resultados)

\* C2: an adapter whose search input or submit control is unresolved ends
\* with a non-empty error and no entries: for a judicial adapter an error
\* record of that source is in resultados, for FielWeb the returned dict
\* has an error and no resultado.
C2_FormFailureIsAnError ==
    /\ InLoop =>
          \A s \in 1..3 :
              srcResult[s].status = "no_form" =>
                  \E k \in 1..Len(resultados) :
                      /\ resultados[k].fuente = SOURCES[s]
                      /\ "error" \in DOMAIN resultados[k]
    /\ (pc = "f_context_close" /\ "resultado" \notin DOMAIN ret)
          => ("error" \in DOMAIN ret /\ ret.error # <<>>)

\* C3: once a connector has returned, a browser that was launched is
\* closed and so is its context.
C3_BrowserAlwaysClosed ==
    \A c \in Connectors :
        (HasReturned(c) /\ chromium[c].browser # "none")
            => (chromium[c].browser = "closed" /\ chromium[c].context = "closed")

\* C4: the result consult_real_jurisprudencia answers with holds, for
\* every source that raised, a record of that source carrying an error.
C4_DegradedSourceVisible ==
    (pc = "done" /\ endpoint = "consult_real_jurisprudencia"
       /\ response.status = 200 /\ "resultado" \in DOMAIN response.body) =>
        \A s \in 1..3 :
            SourceRaised(s) =>
                \E k \in 1..Len(response.body.resultado) :
                    /\ response.body.resultado[k].fuente = SOURCES[s]
                    /\ "error" \in DOMAIN response.body.resultado[k]

\* C5: when the FielWeb login form was not found, the FielWeb flag of
\* fuentes_consultadas in the hybrid response is false.
C5_FlagFalseOnLoginFormFailure ==
    (pc = "done" /\ endpoint = "consult_hybrid" /\ response.status = 200
       /\ "error" \in DOMAIN resultado_fielweb
       /\ resultado_fielweb.error = <<"Error interno en la busqueda", LOGIN_FORM_ERROR>>)
        => ~response.body.fuentes_consultadas.FielWeb

ListOf(d) == IF "resultado" \in DOMAIN d THEN d.resultado ELSE <<>>

\* C7: no resultado list holds more than MAX_ITEMS entries: not the one
\* an async function returns, not the one a connector returns, not the
\* ones in the response.
C7_AtMostMaxItems ==
    /\ Len(ListOf(ret)) <= MAX_ITEMS
    /\ Len(ListOf(resultado_fielweb)) <= MAX_ITEMS
    /\ Len(ListOf(resultado_juris)) <= MAX_ITEMS
    /\ (pc = "done" /\ response.status = 200) =>
          IF endpoint = "consult_hybrid"
          THEN /\ \A i \in 1..Len(response.body.resultado.normativa_y_concordancias) :
                     Len(response.body.resultado.normativa_y_concordancias[i]) <= MAX_ITEMS
               /\ \A i \in 1..Len(response.body.resultado.jurisprudencia_y_sentencias) :
                     Len(response.body.resultado.jurisprudencia_y_sentencias[i]) <= MAX_ITEMS
          ELSE Len(ListOf(response.body)) <= MAX_ITEMS

C7_Witness ==
    /\ Live
    /\ Cardinality(Urls(Concat)) > MAX_ITEMS
    /\ Len(resultados) > MAX_ITEMS
    /\ Len(ret.resultado) = MAX_ITEMS

\* C8: the returned list is the first MAX_ITEMS first occurrences of the
\* concatenation of what the sources returned; with k distinct URLs in the
\* concatenation it has min(MAX_ITEMS, k) entries.
C8_TruncateAfterDedup ==
    Live =>
        LET first == FirstIdx(Concat) IN
        /\ Len(ret.resultado) = Min(MAX_ITEMS, Cardinality(Urls(Concat)))
        /\ \A p \in 1..Len(ret.resultado) :
              \E j \in first :
                  /\ Cardinality({i \in first : i <= j}) = p
                  /\ ret.resultado[p] = Concat[j]

C8_Witness ==
    /\ Live
    /\ Len(Concat) > MAX_ITEMS
    /\ \E i \in 1..MAX_ITEMS, j \in 1..MAX_ITEMS : i < j /\ Concat[i].url = Concat[j].url
    /\ Len(ret.resultado) = MAX_ITEMS

\* portal a yields 3 unique entries, portal b yields 3 entries of which 2
\* repeat a's URLs, the third portal yields nothing
Scenario(a, b, c) ==
    /\ Len(Entries(a)) = 3 /\ Cardinality(Urls(Entries(a))) = 3
    /\ Len(Entries(b)) = 3
    /\ Cardinality(Urls(Entries(a)) \cap Urls(Entries(b))) = 2
    /\ Entries(c) = <<>>

\* C9: the merged list (resultados after line 219) holds every URL the
\* sources returned exactly once, with the record of its first occurrence;
\* in the scenario of the two overlapping portals the returned list has
\* exactly 4 entries.
C9_EachUrlOnceFirstKept ==
    Live =>
        /\ \A u \in Urls(Concat) :
              Cardinality({p \in 1..Len(resultados) : resultados[p].url = u}) = 1
        /\ \A p \in 1..Len(resultados) :
              \E j \in FirstIdx(Concat) : resultados[p] = Concat[j]
        /\ LET at == [p \in 1..Len(resultados) |->
                          CHOOSE i \in 1..Len(Concat) :
                              /\ Concat[i] = resultados[p]
                              /\ \A k \in 1..(i - 1) : Concat[k] # resultados[p]]
           IN  \A p \in 1..(Len(resultados) - 1) : at[p] < at[p + 1]
        /\ (Scenario(1, 2, 3) \/ Scenario(2, 3, 1) \/ Scenario(1, 3, 2))
              => Len(ret.resultado) = 4

C9_Witness ==
    /\ Live
    /\ Scenario(1, 2, 3)
    /\ Len(ret.resultado) = 4

\* C10: while the query text of a connector is missing, empty or blank, no
\* browser is launched for it and no page is navigated, filled or clicked,
\* and what the connector returns is an error without resultado.
C10_BlankTextNoBrowser ==
    \A c \in Connectors :
        BlankFor(c) =>
            /\ touched[c] = {}
            /\ chromium[c] = [browser |-> "none", context |-> "none"]
            /\ HasReturned(c) =>
                  /\ "error" \in DOMAIN ResultOf(c)
                  /\ "resultado" \notin DOMAIN ResultOf(c)

C10_Witness ==
    /\ pc = "done" /\ endpoint = "consult_hybrid"
    /\ "texto" \in DOMAIN payload /\ payload.texto = <<" ">>
    /\ BlankFor("FielWeb") /\ BlankFor("Jurisprudencia")
    /\ "error" \in DOMAIN resultado_fielweb
    /\ "error" \in DOMAIN resultado_juris

\* C11: no exception leaves consultar_fielweb or consultar_jurisprudencia:
\* the except clause of an endpoint is never reached, and a request served
\* with the connectors loaded always ends with status 200 and the dict the
\* connector returned.
C11_ConnectorAlwaysReturns ==
    /\ pc # "ep_except"
    /\ (pc = "done" /\ connectors) => response.status = 200

\* the steps of _buscar_en_fielweb_async from the launch of the browser on
FielBrowserSteps ==
    {"f_launch", "f_new_context", "f_new_page", "f_login_goto", "f_user_sel",
     "f_pass_sel", "f_subm_sel", "f_fill_user", "f_fill_pass", "f_login_click",
     "f_login_wait", "f_login_grace", "f_pause", "f_q_sel", "f_b_sel", "f_fill",
     "f_click", "f_wait", "f_grace", "f_results", "f_extract",
     "f_context_close", "f_browser_close", "f_pw_exit"}

\* the search text connector c makes of the payload (lines 186, 235)
SearchText(c) ==
    strip(GetOr(payload, "texto",
                GetOr(payload, IF c = "FielWeb" THEN "consulta" ELSE "palabras_clave",
                      <<>>)))

CredentialsMissing ==
    ~(config["FIELWEB_URL"] /\ config["USERNAME"] /\ config["PASSWORD"])

\* C12: while FIELWEB_URL, USERNAME or PASSWORD is empty, no browser is
\* launched for FielWeb, no step of the login or the search is taken, and a
\* FielWeb query with a search text returns the error dict that carries the
\* missing-credentials message.
C12_MissingCredentialsSurface ==
    CredentialsMissing =>
        /\ touched["FielWeb"] = {}
        /\ chromium["FielWeb"] = [browser |-> "none", context |-> "none"]
        /\ pc \notin FielBrowserSteps
        /\ (HasReturned("FielWeb") /\ SearchText("FielWeb") # <<>>) =>
              resultado_fielweb =
                  [error |-> <<"Error general al consultar FielWeb", CREDENTIALS_ERROR>>,
                   nivel_consulta |-> "FielWeb"]

C12_Witness ==
    /\ pc = "done" /\ endpoint = "consult_real_fielweb"
    /\ ~config["PASSWORD"]
    /\ response.status = 200
    /\ "error" \in DOMAIN response.body
    /\ response.body.error = <<"Error general al consultar FielWeb", CREDENTIALS_ERROR>>
    /\ touched["FielWeb"] = {}

\* everything but the position in the code and the settle record
Rest == <<request, call, session, texto, exc, ret, chromium, touched, sel, idx, nodes,
          resultados, srcResult, resultado_fielweb, resultado_juris, response>>

\* the wait_for_load_state("networkidle") steps
WaitSteps == {"f_login_wait", "f_wait", "j_wait"}

\* the wait_for_timeout steps of the except PWTimeout clauses
GraceSteps == {"f_login_grace", "f_grace", "j_grace"}

\* the grace wait that follows a timeout of wait step w
GraceOf(w) ==
    CASE w = "f_login_wait" -> "f_login_grace"
      [] w = "f_wait" -> "f_grace"
      [] w = "j_wait" -> "j_grace"

\* the step that follows the settle wait w or its grace wait
SettledOf(w) ==
    CASE w \in {"f_login_wait", "f_login_grace"} -> "f_pause"
      [] w \in {"f_wait", "f_grace"} -> "f_results"
      [] w \in {"j_wait", "j_grace"} -> "j_query"

\* the step records an error of exception e for the running flow
RecordsError(e) ==
    \/ /\ pc \in {"f_login_wait", "f_login_grace", "f_wait", "f_grace"}
       /\ pc' = "f_context_close"
       /\ ret' = [error |-> <<"Error interno en la busqueda", e>>,
                  nivel_consulta |-> "FielWeb"]
    \/ /\ pc \in {"j_wait", "j_grace"}
       /\ resultados' = Append(resultados, ErrorRecord(idx, e))

\* C13: a timeout of a settle wait is absorbed.  While the grace wait is
\* pending nothing has been recorded for the timeout; a settle wait either
\* goes on to the next step, or times out and goes to its grace wait, in
\* both cases leaving every other variable as it is, or fails with an
\* exception that is not the timeout; a grace wait that completes goes on
\* to the step a clean settle wait goes to (the 2.5 s pause before the
\* search after login, the extraction after search), every other variable
\* as it is, so that nothing later in the run depends on the timeout.
C13_SettleTimeoutAbsorbed ==
    /\ [](/\ (pc = "f_login_grace") => (settle.login = "timeout")
          /\ (pc \in {"f_grace", "j_grace"}) => (settle.search = "timeout")
          /\ (pc \in GraceSteps) => (exc = None /\ ret = NoDict))
    /\ [][/\ pc \in WaitSteps =>
                \/ pc' \in {SettledOf(pc), GraceOf(pc)} /\ UNCHANGED Rest
                \/ RecordsError("Error")
          /\ pc \in GraceSteps =>
                \/ pc' = SettledOf(pc) /\ UNCHANGED Rest
                \/ \E e \in Raised : RecordsError(e)]_vars

\* login and search both settled by the grace wait, and the query returns entries
C13_Witness ==
    /\ pc = "f_context_close"
    /\ settle = [login |-> "grace", search |-> "grace"]
    /\ "resultado" \in DOMAIN ret
    /\ ret.resultado # <<>>

\* a call of helper f that has returned
Returned(f) == call.fn = f /\ call.done >= 1

\* positions of the candidates of the call whose probe finds a node
MatchIdx == {i \in 1..Len(call.selectors) : call.page[call.selectors[i]] = "match"}

\* positions of the candidates of the call whose probe throws
ThrowIdx == {i \in 1..Len(call.selectors) : call.page[call.selectors[i]] = "throw"}

\* C14: when at least one candidate matches, _first_selector returns the
\* matching candidate with the smallest index.
C14_FirstMatchWins ==
    (Returned("_first_selector") /\ MatchIdx # {}) =>
        \E i \in MatchIdx :
            /\ call.result = call.selectors[i]
            /\ \A j \in MatchIdx : i <= j

\* the first candidate does not match, two later ones do
C14_Witness ==
    /\ Returned("_first_selector")
    /\ 1 \notin MatchIdx
    /\ Cardinality(MatchIdx) >= 2
    /\ \E i \in MatchIdx : call.result = call.selectors[i] /\ \A j \in MatchIdx : i <= j

\* C15: _first_selector never raises; when no candidate matches it returns
\* None, also when probes throw; a candidate whose probe throws is passed
\* over, so the result is the first matching candidate whatever throws
\* before it.
C15_NoMatchIsNone ==
    Returned("_first_selector") =>
        /\ call.result # ProbeRaised
        /\ (MatchIdx = {}) => (call.result = None)
        /\ \A i \in MatchIdx :
              (\A j \in 1..(i - 1) : j \notin MatchIdx) => call.result = call.selectors[i]

\* every candidate before the one returned throws
C15_ThrowBeforeMatch ==
    /\ Returned("_first_selector")
    /\ \E i \in MatchIdx :
          /\ i > 1
          /\ \A j \in 1..(i - 1) : j \in ThrowIdx
          /\ call.result = call.selectors[i]

\* no candidate matches and one of them throws
C15_Witness ==
    /\ Returned("_first_selector")
    /\ MatchIdx = {} /\ ThrowIdx # {}
    /\ call.result = None

\* the taxonomy of _classify_link
Categories == {"descarga", "concordancia", "jurisprudencia", "otro"}

\* label t contains one of the words, whatever the letter case
HasWord(t, words) == AnyIn(lower(t), [j \in 1..Len(words) |-> lower(words[j])])

\* C16: _classify_link gives every label one of the four categories, and
\* every label that contains a download word the category descarga, also
\* when it contains a concordance or a jurisprudence word as well.
C16_TotalDownloadFirst ==
    Returned("_classify_link") =>
        /\ call.result \in Categories
        /\ HasWord(call.texto, DOWNLOAD_FILTERS) => call.result = "descarga"

\* a label with a download word and a concordance word
C16_Witness ==
    /\ Returned("_classify_link")
    /\ HasWord(call.texto, DOWNLOAD_FILTERS)
    /\ HasWord(call.texto, LABEL_CONCORDANCIAS)
    /\ call.result = "descarga"

\* C17: a label with a concordance word and no download word classifies as
\* concordancia, a label with a jurisprudence word and no download or
\* concordance word as jurisprudencia, whatever the letter case.
C17_EveryCategoryProduced ==
    Returned("_classify_link") =>
        /\ (HasWord(call.texto, LABEL_CONCORDANCIAS)
              /\ ~HasWord(call.texto, DOWNLOAD_FILTERS))
                 => call.result = "concordancia"
        /\ (HasWord(call.texto, LABEL_JURIS)
              /\ ~HasWord(call.texto, LABEL_CONCORDANCIAS)
              /\ ~HasWord(call.texto, DOWNLOAD_FILTERS))
                 => call.result = "jurisprudencia"

\* what the code does instead: only descarga and otro are ever returned
ClassifierNeverBeyondDownload ==
    Returned("_classify_link") => call.result \in {"descarga", "otro"}

\* record r has a key: a url field that is not empty
Keyed(r) == "url" \in DOMAIN r /\ r.url # NoUrl

\* positions of the first record of each key
KeyFirst(items) ==
    {j \in 1..Len(items) :
        /\ Keyed(items[j])
        /\ \A i \in 1..(j - 1) : ~(Keyed(items[i]) /\ items[i].url = items[j].url)}

\* C18: _dedup(s) is the subsequence of s made of the first record of each
\* key, in the order of s, and _dedup(_dedup(s)) = _dedup(s).
C18_IdempotentOrderPreserving ==
    /\ Returned("_dedup") =>
          LET first == KeyFirst(call.items) IN
          /\ Len(call.result) = Cardinality(first)
          /\ \A p \in 1..Len(call.result) :
                \E j \in first :
                    /\ Cardinality({i \in first : i <= j}) = p
                    /\ call.result[p] = call.items[j]
    /\ (call.fn = "_dedup" /\ call.done = 2) => call.again = call.result

\* a list with a repeated key, two keys kept, deduplicated twice
C18_Witness ==
    /\ call.fn = "_dedup" /\ call.done = 2
    /\ Len(call.result) = 2
    /\ Cardinality(KeyFirst(call.items)) < Cardinality({j \in 1..Len(call.items) : Keyed(call.items[j])})
    /\ call.again = call.result

\* C19: no record without key is in what _dedup returns, and what it
\* returns is what it returns for the list without those records.
C19_KeylessDropped ==
    Returned("_dedup") =>
        /\ \A p \in 1..Len(call.result) : Keyed(call.result[p])
        /\ call.result = _dedup(SelectSeq(call.items, Keyed))

\* a record with an empty url and a record without url, between keyed records
C19_Witness ==
    /\ Returned("_dedup")
    /\ \E i \in 1..Len(call.items) :
          "url" \in DOMAIN call.items[i] /\ call.items[i].url = NoUrl
    /\ \E i \in 1..Len(call.items) : "url" \notin DOMAIN call.items[i]
    /\ Keyed(call.items[1]) /\ Keyed(call.items[Len(call.items)])
    /\ Len(call.result) = 2

\* the dict _buscar_en_fielweb_async returns when _login raised line 96
LoginFormErrorDict ==
    [error |-> <<"Error interno en la busqueda", LOGIN_FORM_ERROR>>,
     nivel_consulta |-> "FielWeb"]

\* user_sel, pass_sel and subm_sel are all resolved
FieldsLocated(s) == s.user # None /\ s.pass # None /\ s.subm # None

\* C20: the credentials are filled and the submit control clicked only with
\* the three login selectors resolved; the step that ends the resolution
\* either has all three and goes on to fill the user name, or raises the
\* login-form error, which becomes the returned dict, with nothing filled or
\* clicked; and a query that ends with that error has filled and clicked
\* nothing and has run no settle wait, so neither the login was submitted
\* nor the search run.
C20_NoSubmitWithoutFields ==
    /\ [](/\ (pc \in {"f_fill_user", "f_fill_pass", "f_login_click"})
                => FieldsLocated(sel)
          /\ (ret = LoginFormErrorDict \/ resultado_fielweb = LoginFormErrorDict)
                => /\ touched["FielWeb"] \cap {"fill", "click"} = {}
                   /\ (ret = LoginFormErrorDict) => (settle = NotSettled)
                   /\ pc \notin {"f_pause", "f_q_sel", "f_b_sel", "f_fill", "f_click",
                                 "f_wait", "f_grace", "f_results", "f_extract"})
    /\ [][pc = "f_subm_sel" =>
             \/ /\ pc' = "f_fill_user"
                /\ FieldsLocated(sel')
                /\ sel'.user = sel.user /\ sel'.pass = sel.pass
             \/ /\ pc' = "f_context_close"
                /\ ret' = LoginFormErrorDict
                /\ touched' = touched
                /\ ~FieldsLocated(sel) ]_vars

\* the password field was not found: the query answers with the login-form error
C20_Witness ==
    /\ pc = "done" /\ endpoint = "consult_real_fielweb"
    /\ response.status = 200
    /\ response.body = LoginFormErrorDict
    /\ touched["FielWeb"] = {"launch", "goto"}

\* the place of a source in the adapter list of lines 205-209
SourceIdx(f) == CHOOSE s \in 1..3 : SOURCES[s] = f

\* the records of seq are in the order the sources are declared
InSourceOrder(seq) ==
    \A p \in 1..(Len(seq) - 1) : SourceIdx(seq[p].fuente) <= SourceIdx(seq[p + 1].fuente)

\* C21: the adapters run one after another in the order SATJE, Corte
\* Constitucional, Corte Nacional de Justicia: while adapter idx runs, the
\* ones before it have ended and the ones after it have not started; and
\* resultados, the merged list and the returned list hold the records of
\* an earlier source before the records of a later one.
C21_DeclarationOrder ==
    /\ InLoop =>
          /\ idx \in 1..4
          /\ \A s \in 1..3 : (srcResult[s].status # "pending") <=> (s < idx)
          /\ (pc = "j_dedup") <=> (idx = 4)
          /\ \A p \in 1..Len(resultados) : SourceIdx(resultados[p].fuente) < idx
    /\ InSourceOrder(resultados)
    /\ Live => InSourceOrder(ret.resultado)
    /\ InSourceOrder(ListOf(resultado_juris))

\* the three sources all have entries in the returned list
C21_Witness ==
    /\ Live
    /\ \A s \in 1..3 : \E p \in 1..Len(ret.resultado) : ret.resultado[p].fuente = SOURCES[s]
    /\ InSourceOrder(ret.resultado)

\* the container selectors that matched the nodes of seq
MatchedBy(seq) == {seq[k].by : k \in 1..Len(seq)}

\* C22: the containers the extraction works on were all found by one
\* selector of the candidate list, in the judicial adapters (nodes of lines
\* 102, 134, 166) and in FielWeb (nodes of line 127).
C22_SingleContainerSelector ==
    (pc \in {"j_extract", "f_extract"}) => Cardinality(MatchedBy(nodes)) <= 1

\* what holds instead: FielWeb works on the nodes of one selector, a
\* judicial adapter on the nodes of as many selectors as the page matches
FielwebSingleContainerSelector ==
    (pc = "f_extract") => Cardinality(MatchedBy(nodes)) <= 1

\* the containers the loop of an extraction works on: nodes[:MAX_ITEMS]
Processed == Take(nodes, MAX_ITEMS)

\* the anchors of a container that carry a non-empty href
Usable(node) == {a \in 1..Len(node.anchors) :
                    (IF "href" \in DOMAIN node.anchors[a]
                     THEN node.anchors[a].href ELSE node.anchors[a]).kind # "none"}

\* FielWeb returns one entry per processed container, in order, with an empty
\* link list for a container without a usable anchor (lines 129-143)
FielwebEntryOf ==
    (pc = "f_extract" /\ "resultado" \in DOMAIN ret') =>
        /\ Len(ret'.resultado) = Len(Processed)
        /\ \A k \in 1..Len(Processed) :
              /\ ret'.resultado[k].titulo = Head(Processed[k].text)
              /\ (Usable(Processed[k]) = {}) => (ret'.resultado[k].enlaces = <<>>)

\* a judicial adapter returns an entry for every processed container
JudicialEntryOf ==
    (pc = "j_extract" /\ srcResult'[idx].status = "returned") =>
        \A k \in 1..Len(Processed) :
            \E p \in 1..Len(srcResult'[idx].entries) :
                srcResult'[idx].entries[p].titulo = Head(Processed[k].text)

\* C23: every processed container yields a result entry, also a container
\* without an anchor or with anchors of empty href only, whose entry has an
\* empty link list; in FielWeb and in the judicial adapters.
C23_EntryPerContainer == [][FielwebEntryOf /\ JudicialEntryOf]_vars

\* what holds instead: the FielWeb half alone
FielwebEntryPerContainer == [][FielwebEntryOf]_vars

\* cargar_o_iniciar_sesion is returning (page, context)
SessionReturned ==
    /\ pc = "s_pw_exit"
    /\ session.fn = "cargar_o_iniciar_sesion"
    /\ "context" \in DOMAIN ret

\* C24: the session cargar_o_iniciar_sesion returns from the stored state is
\* never an invalid one: its page shows no login marker (an invalid stored
\* session makes the function log in afresh and save the new state instead).
C24_InvalidSessionNeverReturned ==
    (SessionReturned /\ ret.context = "file") => (ret.page \cap Markers = {})

\* what holds instead: the stored state is returned as the navigation left it,
\* and only a stored state that cannot be loaded leads to the fresh login
StoredSessionReturnedUnchecked ==
    /\ (SessionReturned /\ ret.context = "file") => (ret.page = Shown(session.file))
    /\ (session.fn = "cargar_o_iniciar_sesion" /\ session.context = "file")
          => pc \in {"s_load_page", "s_load_goto", "s_pw_exit", "s_idle"}

\* C25: the session file is written only after a login that succeeded: the
\* settle wait did not time out and the page shows no login marker.
C25_SavedOnlyAfterSuccessfulLogin ==
    [][(pc = "s_save" /\ "context" \in DOMAIN ret')
          => (session.settle = "idle" /\ session.page \cap Markers = {})]_vars

\* what holds instead: the file is written by every fresh login whose browser
\* calls did not raise, with the state the context is in
SavedAfterEveryLogin ==
    [][(pc = "s_save" /\ "context" \in DOMAIN ret')
          => (session'.file = StateOf(session.page))]_vars

\* positions of the records of source s in seq
OfSource(seq, s) == {p \in 1..Len(seq) : seq[p].fuente = SOURCES[s]}

\* the records of source s in seq are error records only, and at most one
OnlyItsError(seq, s) ==
    /\ \A p \in OfSource(seq, s) : "error" \in DOMAIN seq[p]
    /\ Cardinality(OfSource(seq, s)) <= 1

\* C26: a source whose adapter raised, also after it had collected entries,
\* has none of them in resultados, in the merged list or in the returned
\* list: its only record there is its error record, appended once.
C26_FailedSourceAllOrNothing ==
    \A s \in 1..3 :
        (srcResult[s].status = "raised") =>
            /\ OnlyItsError(resultados, s)
            /\ InLoop => Cardinality(OfSource(resultados, s)) = 1
            /\ Live => OnlyItsError(ret.resultado, s)
            /\ OnlyItsError(ListOf(resultado_juris), s)

\* an adapter raised in its extraction loop after it had collected records,
\* the loop has ended and resultados holds the error record of that source
\* next to the records of another source
C26_Witness ==
    /\ pc = "j_dedup"
    /\ \E s \in 1..3 :
          /\ srcResult[s].status = "raised"
          /\ srcResult[s].collected
          /\ OfSource(resultados, s) # {}
          /\ \E t \in 1..3 : srcResult[t].status = "returned" /\ OfSource(resultados, t) # {}

====
